---- MODULE Spec2Model ----
(***************************************************************************)
(* Persona pipeline of persona-driven-prompt-generator: the LLM-calling    *)
(* stages (task enhancer, domain classifier, persona generator, knowledge  *)
(* source fetcher, conflict resolver), the prompt assembler, the model     *)
(* resolver and the Generate handler of the main page.                     *)
(*                                                                         *)
(* Text is modelled as a sequence of tokens.  An LLM response is either    *)
(* an exception raised by litellm.completion or a text.  Formatted strings *)
(* (f-strings) are modelled as records [kind, a, n] naming the template    *)
(* and its arguments, so that two strings are equal exactly when their     *)
(* template and arguments are.                                             *)
(***************************************************************************)
EXTENDS Integers, Sequences, FiniteSets, TLC

VARIABLES
    pc,                  \* which operation has run ("ready" before any)
    task_details,        \* the user's input: [task, goals]
    persona_count,       \* requested number of personas
    decisions,           \* the prior decisions handed to the prompt assembler
    llm,                 \* outcome of the LLM call of the operation under test
    llm_domain,          \* outcome of the classification call made by generate_personas
    llm_knowledge,       \* outcome of the knowledge-source call of the Generate handler
    llm_conflicts,       \* outcome of the conflict-resolution call of the Generate handler
    llm_agents,          \* outcomes of the agent-configuration calls, one per persona
    domain,              \* value returned by detect_task_domain
    personas,            \* generate_personas' return value; st.session_state.personas
    enhanced,            \* value returned by enhance_task_description
    knowledge_sources,   \* st.session_state.knowledge_sources
    conflict_resolution, \* st.session_state.conflict_resolution
    current_prompt,      \* st.session_state.current_prompt
    chat_history,        \* st.session_state.chat_history
    environ,             \* os.environ: LITELLM_MODEL, LITELLM_PROVIDER and the API keys
    litellm_api_key,     \* litellm.api_key
    model,               \* value returned by configure_litellm
    resolutions,         \* number of calls of configure_litellm so far
    completions,         \* the litellm.completion calls issued by the last operation
    messages,            \* st.session_state.messages
    response,            \* value returned by submit_prompt_to_llm
    num_users,           \* autochat's second argument
    urls_input,          \* text of the sidebar's reference-URL text area
    reference_urls,      \* get_user_input()["reference_urls"]
    presses,             \* number of buttons pressed on the main page so far
    retry_count,         \* EnhancedAgent.retry_count
    conversation_history, \* EnhancedAgent.conversation_history
    attempts,            \* times the last process_message call ran the base class's processing
    agent_calls,         \* number of process_message calls made on the agent
    url_cache,           \* WebResearchAgent.url_cache: per URL, Unset or Set(content)
    visited_urls,        \* WebResearchAgent.visited_urls
    web_url,             \* the url argument of the agent's last call
    web_cache,           \* the cache argument of the agent's last call
    web_outcome,         \* what session.get does in the agent's last call
    web_requests,        \* number of session.get calls made by the agent's last call
    fetched,             \* value returned by fetch_url_content
    analysis,            \* value returned by analyze_url_content
    web_calls,           \* number of calls made on the WebResearchAgent
    db_personas,         \* advanced_menu: the personas of the latest task_memory row
    score,               \* page2: the emotional tone score shown first
    prediction,          \* page2: the prediction shown first
    improved_score,      \* page2: the score shown after "Improve Emotional Tone"
    improved_prediction, \* page2: the prediction shown after the improvement
    improvements,        \* number of times "Improve Emotional Tone" was pressed
    st_messages,         \* homepage: st.session_state.messages
    auto_chat_enabled,   \* homepage: the "Enable Auto Chat" checkbox
    auto_chat_threads,   \* homepage: where each auto_chat thread is
    raised               \* exception that reached the caller ("none" if none)

inputVars == <<task_details, persona_count, decisions, llm>>
stageLlmVars == <<llm_domain, llm_knowledge, llm_conflicts, llm_agents>>
sessionVars == <<knowledge_sources, conflict_resolution, current_prompt, chat_history>>
configVars == <<environ, litellm_api_key, model, resolutions>>
chatVars == <<messages, response, num_users>>
formVars == <<urls_input, reference_urls>>
agentVars == <<retry_count, conversation_history, attempts, agent_calls>>
webVars == <<url_cache, visited_urls, web_url, web_cache, web_outcome, web_requests,
             fetched, analysis, web_calls>>
toneVars == <<db_personas, score, prediction, improved_score, improved_prediction,
              improvements>>
pageVars == <<st_messages, auto_chat_enabled, auto_chat_threads>>
auxVars == <<formVars, presses, agentVars, webVars, toneVars, pageVars>>

vars == <<pc, inputVars, stageLlmVars, domain, personas, enhanced, sessionVars,
          configVars, completions, chatVars, auxVars, raised>>

(***************************************************************************)
(* Bounds                                                                  *)
(***************************************************************************)
MaxLen == 5        \* longest LLM response searched for a JSON array, in tokens
MaxCount == 3      \* largest requested persona count
MaxResolutions == 2 \* most calls of configure_litellm in a row
MaxUsers == 2      \* largest num_users handed to autochat
MaxUrlLen == 5     \* longest text of the reference-URL text area, in tokens
MaxPresses == 2    \* most buttons pressed in one session of the main page
MaxAgentCalls == 3 \* most process_message calls made on one agent
MaxWebCalls == 3   \* most calls made on one WebResearchAgent
MaxTonePersonas == 2 \* most personas in the task_memory row
MaxImprovements == 2 \* most presses of "Improve Emotional Tone"
MaxThreads == 2      \* most auto_chat threads started
MaxPageMessages == 4 \* most messages on the chat page

(***************************************************************************)
(* Strings                                                                 *)
(***************************************************************************)
Str(kind, a, n) == [kind |-> kind, a |-> a, n |-> n]
Lit(s) == Str("lit", <<s>>, 0)

\* all sequences over S of length at most n
SeqsUpTo(S, n) == UNION {[1..k -> S] : k \in 0..n}

RECURSIVE LStrip(_)
LStrip(s) == IF s # <<>> /\ Head(s) = "sp" THEN LStrip(Tail(s)) ELSE s

RECURSIVE RStrip(_)
RStrip(s) ==
    IF s # <<>> /\ s[Len(s)] = "sp" THEN RStrip(SubSeq(s, 1, Len(s) - 1)) ELSE s

\* str.strip(): leading and trailing whitespace removed
strip(s) == RStrip(LStrip(s))

\* str.find(c) and str.rfind(c), 1-based, 0 when c does not occur
find(s, c) ==
    IF \E i \in 1..Len(s) : s[i] = c
    THEN CHOOSE i \in 1..Len(s) : s[i] = c /\ \A j \in 1..(i - 1) : s[j] # c
    ELSE 0

rfind(s, c) ==
    IF \E i \in 1..Len(s) : s[i] = c
    THEN CHOOSE i \in 1..Len(s) : s[i] = c /\ \A j \in (i + 1)..Len(s) : s[j] # c
    ELSE 0

\* str.upper() and str.lower() on the words of a text
UpperWord(w) ==
    CASE w = "software" -> "SOFTWARE"
      [] w = "Creative" -> "CREATIVE"
      [] w = "banana" -> "BANANA"
      [] w = "The" -> "THE"
      [] OTHER -> w

LowerWord(w) ==
    CASE w = "SOFTWARE" -> "software"
      [] w = "CREATIVE" -> "creative"
      [] w = "GAMING" -> "gaming"
      [] w = "BANANA" -> "banana"
      [] w = "THE" -> "the"
      [] w = "OpenAI" -> "openai"
      [] OTHER -> w

upper(s) == [i \in 1..Len(s) |-> UpperWord(s[i])]
lower(s) == [i \in 1..Len(s) |-> LowerWord(s[i])]

(***************************************************************************)
(* JSON                                                                    *)
(* Tokens of a response that is searched for a JSON array: brackets, the   *)
(* comma, whitespace "sp", a word of prose "w", and whole JSON objects     *)
(* written by the LLM ("oTwo", "oSix", "oFull", "kFull", "kMore", "kBare"). *)
(* Tokens of a response that is searched for a JSON object: braces, the    *)
(* comma, and one token per member ("kt" is "enhanced_task": <string>,     *)
(* "kg" is "enhanced_goals": <string>, "ko" is a member with another key). *)
(***************************************************************************)
BaseFields == {"name", "background", "goals", "beliefs", "knowledge",
               "communication_style"}

required_fields == BaseFields \cup {"role", "strengths", "challenges"}

ObjTokens == {"oTwo", "oSix", "oFull", "kFull", "kMore", "kBare"}

\* the keys the LLM wrote in each object: persona objects with two, six or
\* all nine fields, knowledge sources with or without a url
ObjFields(o) ==
    CASE o = "oTwo" -> {"name", "background"}
      [] o = "oSix" -> BaseFields
      [] o = "oFull" -> required_fields
      [] o = "kFull" -> {"title", "description", "url"}
      [] o = "kMore" -> {"title", "url"}
      [] o = "kBare" -> {"title", "description"}

\* the value the LLM wrote for key f of object o
LLMValue(o, f) == Str("llm", <<o, f>>, 0)

JDict(d) == [t |-> "dict", d |-> d, items |-> <<>>]
JList(items) == [t |-> "list", d |-> <<>>, items |-> items]

\* a JSON number
JNum == [t |-> "int", d |-> <<>>, items |-> <<>>]

\* Python's None
None == [t |-> "None"]

ParseFail == [ok |-> FALSE, val |-> JList(<<>>), next |-> 0]

RECURSIVE SkipWs(_, _)
SkipWs(s, i) == IF i <= Len(s) /\ s[i] = "sp" THEN SkipWs(s, i + 1) ELSE i

MemberTokens == {"kt", "kg", "ko"}

MemberKey(m) ==
    CASE m = "kt" -> "enhanced_task"
      [] m = "kg" -> "enhanced_goals"
      [] m = "ko" -> "notes"

MemberValue(m) ==
    CASE m = "kt" -> "Design and build a versioned REST API"
      [] m = "kg" -> "p95 latency under 200 ms; full test coverage"
      [] m = "ko" -> "none"

\* d[key] = value
DictSet(d, key, value) ==
    [x \in (DOMAIN d) \cup {key} |-> IF x = key THEN value ELSE d[x]]

RECURSIVE ParseMembers(_, _, _)
\* the members of an object whose "{" has been read, up to its "}"
ParseMembers(s, i, acc) ==
    LET j == SkipWs(s, i) IN
    IF j > Len(s) \/ s[j] \notin MemberTokens THEN ParseFail
    ELSE LET d == DictSet(acc, MemberKey(s[j]), MemberValue(s[j]))
             k == SkipWs(s, j + 1)
         IN IF k > Len(s) THEN ParseFail
            ELSE IF s[k] = "," THEN ParseMembers(s, k + 1, d)
            ELSE IF s[k] = "}" THEN [ok |-> TRUE, val |-> JDict(d), next |-> k + 1]
            ELSE ParseFail

RECURSIVE ParseValue(_, _)
RECURSIVE ParseElems(_, _, _)
\* one JSON value starting at position i (after whitespace)
ParseValue(s, i) ==
    LET j == SkipWs(s, i) IN
    IF j > Len(s) THEN ParseFail
    ELSE IF s[j] \in ObjTokens
         THEN [ok |-> TRUE,
               val |-> JDict([f \in ObjFields(s[j]) |-> LLMValue(s[j], f)]),
               next |-> j + 1]
    ELSE IF s[j] = "num"
         THEN [ok |-> TRUE, val |-> JNum, next |-> j + 1]
    ELSE IF s[j] = "["
         THEN LET k == SkipWs(s, j + 1) IN
              IF k <= Len(s) /\ s[k] = "]"
              THEN [ok |-> TRUE, val |-> JList(<<>>), next |-> k + 1]
              ELSE ParseElems(s, j + 1, <<>>)
    ELSE IF s[j] = "{"
         THEN LET k == SkipWs(s, j + 1) IN
              IF k <= Len(s) /\ s[k] = "}"
              THEN [ok |-> TRUE, val |-> JDict(<<>>), next |-> k + 1]
              ELSE ParseMembers(s, j + 1, <<>>)
    ELSE ParseFail

\* the elements of an array whose "[" has been read, up to its "]"
ParseElems(s, i, acc) ==
    LET r == ParseValue(s, i) IN
    IF ~r.ok THEN ParseFail
    ELSE LET k == SkipWs(s, r.next) IN
         IF k > Len(s) THEN ParseFail
         ELSE IF s[k] = "," THEN ParseElems(s, k + 1, Append(acc, r.val))
         ELSE IF s[k] = "]"
              THEN [ok |-> TRUE, val |-> JList(Append(acc, r.val)), next |-> k + 1]
         ELSE ParseFail

\* json.loads: the value, or ok = FALSE for json.JSONDecodeError
json_loads(s) ==
    LET r == ParseValue(s, 1) IN
    IF r.ok /\ SkipWs(s, r.next) > Len(s)
    THEN [ok |-> TRUE, val |-> r.val]
    ELSE [ok |-> FALSE, val |-> JList(<<>>)]

\* re.search(r'(\[.*\])', s, re.DOTALL): greedy, from the first "[" to the
\* last "]" after it; found = FALSE when there is no match
search_array(s) ==
    LET a == find(s, "[")
        b == rfind(s, "]")
    IN IF a > 0 /\ b > a
       THEN [found |-> TRUE, group |-> SubSeq(s, a, b)]
       ELSE [found |-> FALSE, group |-> <<>>]

\* re.search(r'(\{.*\})', s, re.DOTALL): greedy, from the first "{" to the
\* last "}" after it
search_object(s) ==
    LET a == find(s, "{")
        b == rfind(s, "}")
    IN IF a > 0 /\ b > a
       THEN [found |-> TRUE, group |-> SubSeq(s, a, b)]
       ELSE [found |-> FALSE, group |-> <<>>]

(***************************************************************************)
(* LLM outcomes                                                            *)
(***************************************************************************)
Raise == [kind |-> "raise", text |-> <<>>]
\* the call raised an exception e with str(e) = msg
RaiseWith(msg) == [kind |-> "raise", text |-> msg]
Text(s) == [kind |-> "text", text |-> s]

ArrayTokens == {"[", "]", ",", "w", "oTwo", "oFull"}

\* responses with whitespace around or instead of the content
PaddedTexts == {<<"sp">>, <<"sp", "sp">>, <<"sp", "[", "oTwo", "]", "sp">>,
                <<"[", "sp", "oFull", "sp", "]">>, <<"sp", "w", "sp">>}

ArrayOutcomes ==
    {Raise} \cup {Text(s) : s \in SeqsUpTo(ArrayTokens, MaxLen) \cup PaddedTexts}

ObjectTokens == {"{", "}", ",", "w", "kt", "kg", "ko"}

PaddedObjectTexts == {<<"sp">>, <<"sp", "{", "kt", ",", "kg", "}", "sp">>,
                      <<"{", "sp", "kt", "sp", "}">>, <<"sp", "w", "sp">>}

\* a complete object wrapped in prose, followed by a stray brace, followed by
\* a second object
ProseObjectTexts ==
    {<<"w", "sp", "{", "kt", ",", "kg", "}", "sp", "w">>,
     <<"{", "kt", ",", "kg", "}", "sp", "w", "}">>,
     <<"w", "{", "kt", ",", "kg", "}", "w", "{", "ko", "}">>}

ObjectOutcomes ==
    {Raise} \cup {Text(s) : s \in SeqsUpTo(ObjectTokens, MaxLen) \cup PaddedObjectTexts
                                  \cup ProseObjectTexts}

KnowledgeTokens == {"[", "]", ",", "w", "kFull", "kBare"}

\* arrays with an element that is no object
ScalarTexts == {<<"[", "num", "]">>, <<"[", "kFull", ",", "num", "]">>,
                <<"[", "[", "]", "]">>}

KnowledgeOutcomes ==
    {Raise} \cup {Text(s) : s \in SeqsUpTo(KnowledgeTokens, MaxLen) \cup PaddedTexts
                                  \cup ScalarTexts}

PlainTokens == {"sp", "w"}

PlainOutcomes == {Raise} \cup {Text(s) : s \in SeqsUpTo(PlainTokens, MaxLen)}

Tasks == {"Build a REST API"}
Goals == {"efficiency and maintainability"}

(***************************************************************************)
(* llm_interaction.configure_litellm (utils.configure_litellm is the same) *)
(* os.getenv gives None for a variable that is not set and its text         *)
(* otherwise: [set, v].                                                    *)
(***************************************************************************)
\* a providers dict that lists mistral first
providers_mistral_first ==
    <<"mistral", "openai", "groq", "deepseek", "huggingface", "ollama">>

\* the keys of the providers dict, in insertion order
providers == <<"openai", "groq", "deepseek", "huggingface", "ollama", "mistral">>

ProviderNames == {providers[i] : i \in 1..Len(providers)}

default_model(provider) ==
    CASE provider = "openai" -> <<"gpt-3.5-turbo">>
      [] provider = "groq" -> <<"groq/mixtral-8x7b-32768">>
      [] provider = "deepseek" -> <<"deepseek-coder">>
      [] provider = "huggingface" -> <<"huggingface/mistral-7b">>
      [] provider = "ollama" -> <<"ollama/llama2">>
      [] provider = "mistral" -> <<"mistral-medium">>

\* a variable that is not set, and one set to the text v
Unset == [set |-> FALSE, v |-> <<>>]

Set(v) == [set |-> TRUE, v |-> v]

\* truth value of an Optional[str]
Truthy(x) == x.set /\ x.v # <<>>

\* a key check that accepts a key of whitespace
valid_key_unstripped(api_key) == Truthy(api_key)

\* api_key and api_key.strip()
valid_key(api_key) == Truthy(api_key) /\ strip(api_key.v) # <<>>

\* [exc, val]: the exception that leaves a function ("none" if it returns)
\* and the value it returns
Returned(v) == [exc |-> "none", val |-> v]

Failed(e) == [exc |-> e, val |-> None]

\* an assignment that stores the provider's name as the model
persist_provider_as_model(env, chosen, provider) ==
    [env EXCEPT !.LITELLM_MODEL = Set(<<provider>>),
                !.LITELLM_PROVIDER = Set(<<provider>>)]

\* os.environ["LITELLM_MODEL"] = model; os.environ["LITELLM_PROVIDER"] = provider
persist(env, chosen, provider) ==
    [env EXCEPT !.LITELLM_MODEL = Set(chosen),
                !.LITELLM_PROVIDER = Set(<<provider>>)]

\* a resolver that ignores the configured provider and always scans
configure_litellm_scan_only(env, api_key0) ==
    LET configured == env.LITELLM_MODEL
        usable == {i \in 1..Len(providers) : valid_key(env.keys[providers[i]])}
    IN IF usable # {}
       THEN LET i == CHOOSE i \in usable : \A j \in usable : i <= j
                chosen == IF ~Truthy(configured) THEN default_model(providers[i])
                          ELSE configured.v
            IN [exc |-> "none", val |-> chosen,
                environ |-> persist(env, chosen, providers[i]),
                api_key |-> env.keys[providers[i]].v]
       ELSE [exc |-> "ValueError", val |-> None, environ |-> env, api_key |-> api_key0]

\* [exc, val, environ, api_key]: the exception or the model returned, and
\* os.environ and litellm.api_key as the call leaves them
configure_litellm(env, api_key0) ==
    LET configured == env.LITELLM_MODEL
        provider == env.LITELLM_PROVIDER
        explicit ==
            /\ Truthy(configured) /\ Truthy(provider)
            /\ Len(lower(provider.v)) = 1
            /\ lower(provider.v)[1] \in ProviderNames
            /\ valid_key(env.keys[lower(provider.v)[1]])
        usable == {i \in 1..Len(providers) : valid_key(env.keys[providers[i]])}
    IN IF explicit
       THEN [exc |-> "none", val |-> configured.v, environ |-> env,
             api_key |-> env.keys[lower(provider.v)[1]].v]
       ELSE IF usable # {}
       THEN LET i == CHOOSE i \in usable : \A j \in usable : i <= j
                chosen == IF ~Truthy(configured) THEN default_model(providers[i])
                          ELSE configured.v
            IN [exc |-> "none", val |-> chosen,
                environ |-> persist(env, chosen, providers[i]),
                api_key |-> env.keys[providers[i]].v]
       ELSE [exc |-> "ValueError", val |-> None, environ |-> env, api_key |-> api_key0]

(***************************************************************************)
(* shared_functions.generate_personas                                      *)
(***************************************************************************)
generate_default_personas(count) ==
    JList([i \in 1..count |->
        JDict([f \in required_fields |->
            CASE f = "name" -> Str("Persona_{i}", <<>>, i - 1)
              [] f = "background" -> Lit("General professional background")
              [] f = "goals" -> Lit("Contribute to the task effectively")
              [] f = "beliefs" -> Lit("Collaborative problem-solving")
              [] f = "knowledge" -> Lit("General domain knowledge")
              [] f = "communication_style" -> Lit("Professional and clear")
              [] f = "role" -> Lit("Team member")
              [] f = "strengths" -> Lit("Adaptability and cooperation")
              [] f = "challenges" -> Lit("Managing complex situations")])])

\* a repair that overwrites the fields the LLM supplied as well
repair_overwrites(persona) ==
    JDict([f \in (DOMAIN persona.d) \cup required_fields |->
        IF f \in required_fields THEN Str("Default {field}", <<f>>, 0)
        ELSE persona.d[f]])

\* persona[field] = f"Default {field}" for every missing field
repair(persona) ==
    JDict([f \in (DOMAIN persona.d) \cup required_fields |->
        IF f \in DOMAIN persona.d THEN persona.d[f] ELSE Str("Default {field}", <<f>>, 0)])

\* enhanced_task_details is the outcome of the call of enhance_task_description,
\* cfg of configure_litellm() after it, and o of the completion call; the
\* enhanced task only changes the wording of the request
\* the completion call of line 149, reached when the enhancer and
\* configure_litellm returned
sf_generate_personas_calls(enhanced_task_details, cfg, o) ==
    IF enhanced_task_details.exc # "none" \/ cfg.exc # "none" THEN <<>>
    ELSE <<"shared_functions.generate_personas">>

sf_generate_personas(count, enhanced_task_details, cfg, o) ==
    IF enhanced_task_details.exc # "none" THEN Failed(enhanced_task_details.exc)
    ELSE IF cfg.exc # "none" THEN Failed(cfg.exc)
    ELSE IF o.kind = "raise" THEN Returned(generate_default_personas(count))
    ELSE LET personas_content == strip(o.text) IN
         IF personas_content = <<>> THEN Returned(generate_default_personas(count))
         ELSE LET json_match == search_array(personas_content) IN
              IF ~json_match.found THEN Returned(generate_default_personas(count))
              ELSE LET parsed == json_loads(json_match.group) IN
                   IF ~parsed.ok THEN Returned(generate_default_personas(count))
                   ELSE IF \E i \in 1..Len(parsed.val.items) :
                               parsed.val.items[i].t # "dict"
                        THEN Returned(generate_default_personas(count))
                   ELSE Returned(JList([i \in 1..Len(parsed.val.items) |->
                                            repair(parsed.val.items[i])]))

(***************************************************************************)
(* persona_management.detect_task_domain                                   *)
(* The response of the classification call is a text over whitespace and   *)
(* words; str.upper() and str.lower() map a word to its upper- and         *)
(* lower-case form.                                                        *)
(***************************************************************************)
DomainLabels == {"SOFTWARE", "MARKETING", "HR", "FINANCE", "DESIGN", "SALES",
                 "OPERATIONS", "LEGAL", "RESEARCH", "EDUCATION", "CREATIVE",
                 "RELIGIOUS", "HEALTHCARE", "TECHNOLOGY", "GOVERNMENT",
                 "GAMING", "SOCIAL", "CULINARY"}

\* responses of the classification call: a label in some letter case, with or
\* without surrounding whitespace, a word that is no label, a sentence, nothing
DomainTexts == {<<"SOFTWARE">>, <<"Creative">>, <<"sp", "Creative", "sp">>,
                <<"GAMING">>, <<"banana">>, <<"The", "sp", "SOFTWARE">>,
                <<>>, <<"sp">>}

DomainOutcomes == {Raise} \cup {Text(s) : s \in DomainTexts}

\* the completion call of line 14
detect_task_domain_calls(o) == <<"detect_task_domain">>

detect_task_domain(o) ==
    IF o.kind = "raise" THEN <<"SOFTWARE">>
    ELSE upper(strip(o.text))

(***************************************************************************)
(* persona_management.generate_personas                                    *)
(***************************************************************************)
FallbackKeys == {"MARKETING", "HR", "FINANCE", "DESIGN", "SALES", "OPERATIONS",
                 "LEGAL", "RESEARCH", "EDUCATION", "CREATIVE", "RELIGIOUS",
                 "SOFTWARE"}

domain_fallbacks(k) ==
    CASE k = "MARKETING" -> << <<"Emily Rodriguez", "Senior Marketing Strategist">>,
                               <<"Marcus Chen", "Digital Marketing Manager">> >>
      [] k = "HR" -> << <<"Sarah Thompson", "HR Director">>,
                        <<"Michael Foster", "Talent Acquisition Manager">> >>
      [] k = "FINANCE" -> << <<"David Kumar", "Financial Analyst">>,
                             <<"Jennifer Wu", "Investment Advisor">> >>
      [] k = "DESIGN" -> << <<"Alex Rivera", "UX Design Lead">>,
                            <<"Sophie Anderson", "Creative Director">> >>
      [] k = "SALES" -> << <<"James Wilson", "Sales Director">>,
                           <<"Maria Garcia", "Business Development Manager">> >>
      [] k = "OPERATIONS" -> << <<"Robert Taylor", "Operations Manager">>,
                                <<"Lisa Patel", "Project Manager">> >>
      [] k = "LEGAL" -> << <<"William Chang", "Legal Counsel">>,
                           <<"Rachel Martinez", "Compliance Officer">> >>
      [] k = "RESEARCH" -> << <<"Dr. Amanda Lee", "Research Analyst">>,
                              <<"Dr. Thomas Brown", "Data Scientist">> >>
      [] k = "EDUCATION" -> << <<"Patricia Moore", "Instructional Designer">>,
                               <<"Daniel Kim", "Training Specialist">> >>
      [] k = "CREATIVE" -> << <<"Isabella Martinez", "Creative Writing Director">>,
                              <<"Nathan Wright", "Art Director">>,
                              <<"Maya Patel", "Music Producer">>,
                              <<"Jordan Lee", "Performance Artist">> >>
      [] k = "RELIGIOUS" -> << <<"Rev. David Cohen", "Interfaith Program Director">>,
                               <<"Sister Grace Sullivan", "Spiritual Counselor">>,
                               <<"Imam Ahmad Hassan", "Religious Education Director">>,
                               <<"Rabbi Sarah Goldstein", "Community Outreach Coordinator">> >>
      [] k = "SOFTWARE" -> << <<"John Smith", "Senior Software Developer">>,
                              <<"Sarah Johnson", "Technical Lead">> >>

\* domain_fallbacks.get(domain, domain_fallbacks["SOFTWARE"])
\* a lookup whose default is the first table instead of the SOFTWARE one
fallback_table_marketing_default(dom) ==
    IF Len(dom) = 1 /\ dom[1] \in FallbackKeys
    THEN domain_fallbacks(dom[1])
    ELSE domain_fallbacks("MARKETING")

\* domain_fallbacks.get(domain, domain_fallbacks["SOFTWARE"])
fallback_table(dom) ==
    IF Len(dom) = 1 /\ dom[1] \in FallbackKeys
    THEN domain_fallbacks(dom[1])
    ELSE domain_fallbacks("SOFTWARE")

\* fallback_personas[:persona_count]
Prefix(s, n) == SubSeq(s, 1, IF n < Len(s) THEN n ELSE Len(s))

pm_fallback_personas(task, count, dom) ==
    LET fallback_personas == Prefix(fallback_table(dom), count) IN
    JList([k \in 1..Len(fallback_personas) |->
        JDict([f \in BaseFields |->
            CASE f = "name" -> Lit(fallback_personas[k][1])
              [] f = "background" ->
                     Str("{title} with {10+i} years of experience",
                         <<fallback_personas[k][2]>>, 10 + (k - 1))
              [] f = "goals" ->
                     Str("Deliver excellent results for {task}", <<task>>, 0)
              [] f = "beliefs" ->
                     Str("Quality and innovation in {domain} are essential",
                         lower(dom), 0)
              [] f = "knowledge" ->
                     Str("Expert in {domain} methodologies and best practices",
                         lower(dom), 0)
              [] f = "communication_style" ->
                     Lit("Professional and collaborative")])])

\* the slice personas_content[json_start:json_end] when an array is found,
\* the whole content otherwise
pm_extract(personas_content) ==
    LET json_start == find(personas_content, "[") - 1
        json_end == rfind(personas_content, "]")
    IN IF json_start >= 0 /\ json_end > json_start
       THEN SubSeq(personas_content, json_start + 1, json_end)
       ELSE personas_content

\* the completion call made after detect_task_domain returned
pm_generate_personas_calls(o) == <<"persona_management.generate_personas">>

pm_generate_personas(task, count, dom, o) ==
    IF o.kind = "raise" THEN pm_fallback_personas(task, count, dom)
    ELSE LET parsed == json_loads(pm_extract(strip(o.text))) IN
         IF parsed.ok THEN parsed.val
         ELSE pm_fallback_personas(task, count, dom)

(***************************************************************************)
(* shared_functions.enhance_task_description                               *)
(***************************************************************************)
\* dict.get(key, default)
get(d, key, default) == IF key \in DOMAIN d THEN d[key] ELSE default

\* an enhancer that fills an absent key with the empty string
enhance_task_description_blank(task, goals, cfg, o) ==
    IF cfg.exc # "none" THEN Failed(cfg.exc)
    ELSE IF o.kind = "raise" THEN Returned([task |-> task, goals |-> goals])
    ELSE LET json_match == search_object(strip(o.text)) IN
         IF ~json_match.found THEN Returned([task |-> task, goals |-> goals])
         ELSE LET enhanced_json == json_loads(json_match.group) IN
              IF ~enhanced_json.ok THEN Returned([task |-> task, goals |-> goals])
              ELSE Returned([task |-> get(enhanced_json.val.d, "enhanced_task", ""),
                             goals |-> get(enhanced_json.val.d, "enhanced_goals", "")])

\* cfg is the outcome of configure_litellm() at the head of the function, o
\* the outcome of the completion call; every exception raised inside the try
\* block is caught
enhance_task_description(task, goals, cfg, o) ==
    IF cfg.exc # "none" THEN Failed(cfg.exc)
    ELSE IF o.kind = "raise" THEN Returned([task |-> task, goals |-> goals])
    ELSE LET enhanced_content == strip(o.text)
             json_match == search_object(enhanced_content)
         IN IF ~json_match.found THEN Returned([task |-> task, goals |-> goals])
            ELSE LET enhanced_json == json_loads(json_match.group) IN
                 IF ~enhanced_json.ok THEN Returned([task |-> task, goals |-> goals])
                 ELSE Returned([task |-> get(enhanced_json.val.d, "enhanced_task", task),
                                goals |-> get(enhanced_json.val.d, "enhanced_goals", goals)])

\* an enhancer that calls the LLM a second time when the first call failed
enhance_task_description_retry_calls(cfg, o) ==
    IF cfg.exc # "none" THEN <<>>
    ELSE IF o.kind = "raise"
         THEN <<"enhance_task_description", "enhance_task_description">>
         ELSE <<"enhance_task_description">>

\* the completion calls of enhance_task_description: the one of line 51,
\* reached when configure_litellm returned; no loop, and the handler returns
enhance_task_description_calls(cfg, o) ==
    IF cfg.exc # "none" THEN <<>> ELSE <<"enhance_task_description">>

(***************************************************************************)
(* main.fetch_knowledge_sources                                            *)
(***************************************************************************)
\* the completion call of line 38
fetch_knowledge_sources_calls(cfg, o) ==
    IF cfg.exc # "none" THEN <<>> ELSE <<"fetch_knowledge_sources">>

fetch_knowledge_sources(cfg, o) ==
    IF cfg.exc # "none" THEN Failed(cfg.exc)
    ELSE IF o.kind = "raise" THEN Returned(JList(<<>>))
    ELSE LET knowledge_sources_content == strip(o.text) IN
         IF knowledge_sources_content = <<>> THEN Returned(JList(<<>>))
         ELSE LET json_match == search_array(knowledge_sources_content) IN
              IF ~json_match.found THEN Returned(JList(<<>>))
              ELSE LET parsed == json_loads(json_match.group) IN
                   IF parsed.ok THEN Returned(parsed.val) ELSE Returned(JList(<<>>))

(***************************************************************************)
(* llm_interaction.fetch_knowledge_sources                                 *)
(***************************************************************************)
\* "url" in source: TypeError for a source that is no container
MembershipError(source) == IF source.t \in {"dict", "list"} THEN "none" ELSE "TypeError"

\* as main.fetch_knowledge_sources, and a loop that prints the url of every
\* source before the return, inside the same try block
li_fetch_knowledge_sources(cfg, o) ==
    IF cfg.exc # "none" THEN Failed(cfg.exc)
    ELSE IF o.kind = "raise" THEN Returned(JList(<<>>))
    ELSE LET knowledge_sources_content == strip(o.text) IN
         IF knowledge_sources_content = <<>> THEN Returned(JList(<<>>))
         ELSE LET json_match == search_array(knowledge_sources_content) IN
              IF ~json_match.found THEN Returned(JList(<<>>))
              ELSE LET parsed == json_loads(json_match.group) IN
                   IF ~parsed.ok THEN Returned(JList(<<>>))
                   ELSE IF \E i \in 1..Len(parsed.val.items) :
                               MembershipError(parsed.val.items[i]) # "none"
                        THEN Returned(JList(<<>>))
                   ELSE Returned(parsed.val)

(***************************************************************************)
(* main.resolve_conflicts                                                  *)
(***************************************************************************)
\* the completion call of line 80
resolve_conflicts_calls(cfg, o) ==
    IF cfg.exc # "none" THEN <<>> ELSE <<"resolve_conflicts">>

\* a resolver that lets the exception of the completion call escape
resolve_conflicts_unguarded(cfg, o) ==
    IF cfg.exc # "none" THEN Failed(cfg.exc)
    ELSE IF o.kind = "raise" THEN [exc |-> "Exception", val |-> Lit("")]
    ELSE LET content == strip(o.text) IN
         IF content = <<>>
         THEN [exc |-> "ValueError", val |-> Lit("")]
         ELSE Returned(Str("llm text", content, 0))

resolve_conflicts(cfg, o) ==
    IF cfg.exc # "none" THEN Failed(cfg.exc)
    ELSE IF o.kind = "raise" THEN Returned(Lit("No conflicts detected."))
    ELSE LET content == strip(o.text) IN
         IF content = <<>>
         THEN Returned(Lit("No conflicts detected."))
         ELSE Returned(Str("llm text", content, 0))

(***************************************************************************)
(* main.generate_prompt and main.generate_markdown_output                  *)
(***************************************************************************)
\* what a for loop over v visits: the elements of a list, the keys of a dict
Iterate(v) ==
    IF v.t = "list" THEN v.items
    ELSE [i \in 1..Cardinality(DOMAIN v.d) |-> [t |-> "str", d |-> <<>>, items |-> <<>>]]

\* the exception of item[k] for the keys k: KeyError for a dict without the
\* key, TypeError for a value that is no dict
SubscriptError(item, keys) ==
    IF item.t # "dict" THEN "TypeError"
    ELSE IF keys \subseteq DOMAIN item.d THEN "none"
    ELSE "KeyError"

\* the exception of the first element of items that cannot be subscripted
FirstError(items, keys) ==
    IF \A i \in 1..Len(items) : SubscriptError(items[i], keys) = "none" THEN "none"
    ELSE LET i == CHOOSE i \in 1..Len(items) :
                      /\ SubscriptError(items[i], keys) # "none"
                      /\ \A j \in 1..(i - 1) : SubscriptError(items[j], keys) = "none"
         IN SubscriptError(items[i], keys)

\* sep.join(parts)
Join(parts, sep) ==
    [k \in 1..(IF parts = <<>> THEN 0 ELSE 2 * Len(parts) - 1) |->
        IF k % 2 = 1 THEN parts[(k + 1) \div 2] ELSE sep]

\* [exc, val]: the exception that leaves the function, or the prompt
generate_prompt(details, ps, sources, conflict_strategy, prior_decisions, additional_context, use_autogen) ==
    LET plist == Iterate(ps)
        slist == Iterate(sources)
        perr == FirstError(plist, BaseFields)
        serr == FirstError(slist, {"title", "url"})
    IN IF perr # "none" THEN [exc |-> perr, val |-> None]
       ELSE IF serr # "none" THEN [exc |-> serr, val |-> None]
       ELSE
         LET memory_personas ==
                 Join([i \in 1..Len(plist) |->
                          [name |-> plist[i].d["name"],
                           Background |-> plist[i].d["background"],
                           Goals |-> plist[i].d["goals"],
                           Beliefs |-> plist[i].d["beliefs"],
                           Knowledge |-> plist[i].d["knowledge"],
                           CommunicationStyle |-> plist[i].d["communication_style"]]],
                      "\n")
             memory_prior_decisions ==
                 Join([i \in 1..Len(prior_decisions) |-> <<"- ", prior_decisions[i]>>], "\n")
             names == [i \in 1..Len(plist) |-> plist[i].d["name"]]
             titles == [i \in 1..Len(slist) |-> slist[i].d["title"]]
         IN Returned(
              [t |-> "prompt",
               task |-> details.task,
               personas |-> names,
               knowledge_sources |->
                   [i \in 1..Len(slist) |->
                       [title |-> slist[i].d["title"], url |-> slist[i].d["url"]]],
               conflict_resolution |-> conflict_strategy,
               use_autogen |-> use_autogen,
               memory |-> [personas |-> memory_personas,
                           task_goals |-> details.goals,
                           prior_decisions |-> memory_prior_decisions],
               instructions |->
                   << [header |-> "### Task ###", body |-> <<details.task>>],
                      [header |-> "### Memory: Personas ###", body |-> memory_personas],
                      [header |-> "### Memory: Task Goals ###", body |-> <<details.goals>>],
                      [header |-> "### Memory: Prior Decisions ###",
                       body |-> memory_prior_decisions],
                      [header |-> "### Additional Context ###",
                       body |-> <<additional_context>>],
                      [header |-> "### Instructions ###",
                       body |-> <<details.task, Join(names, ", "), Join(titles, ", ")>>] >>])

generate_markdown_output(prompt) ==
    [task |-> prompt.task,
     personas |-> prompt.memory.personas,
     knowledge_sources |-> prompt.knowledge_sources,
     conflict_resolution |-> prompt.conflict_resolution,
     task_goals |-> prompt.memory.task_goals,
     prior_decisions |-> prompt.memory.prior_decisions,
     instructions |-> prompt.instructions]

(***************************************************************************)
(* persona_testing.generate_prompt                                         *)
(***************************************************************************)
pt_generate_prompt(details, ps, sources, conflict_strategy, prior_decisions) ==
    LET plist == Iterate(ps)
        slist == Iterate(sources)
        perr == FirstError(plist, BaseFields)
        serr == FirstError(slist, {"title", "url"})
    IN IF perr # "none" THEN Failed(perr)
       ELSE IF serr # "none" THEN Failed(serr)
       ELSE
         LET memory_personas ==
                 Join([i \in 1..Len(plist) |->
                          [name |-> plist[i].d["name"],
                           Background |-> plist[i].d["background"],
                           Goals |-> plist[i].d["goals"],
                           Beliefs |-> plist[i].d["beliefs"],
                           Knowledge |-> plist[i].d["knowledge"],
                           CommunicationStyle |-> plist[i].d["communication_style"]]],
                      "\n")
             memory_prior_decisions ==
                 Join([i \in 1..Len(prior_decisions) |-> <<"- ", prior_decisions[i]>>], "\n")
             names == [i \in 1..Len(plist) |-> plist[i].d["name"]]
             titles == [i \in 1..Len(slist) |-> slist[i].d["title"]]
         IN Returned(
              [t |-> "prompt",
               task |-> details.task,
               personas |-> names,
               knowledge_sources |->
                   [i \in 1..Len(slist) |->
                       [title |-> slist[i].d["title"], url |-> slist[i].d["url"]]],
               conflict_resolution |-> conflict_strategy,
               memory |-> [personas |-> memory_personas,
                           task_goals |-> details.goals,
                           prior_decisions |-> memory_prior_decisions],
               instructions |->
                   << [header |-> "### Task ###", body |-> <<details.task>>],
                      [header |-> "### Memory: Personas ###", body |-> memory_personas],
                      [header |-> "### Memory: Task Goals ###", body |-> <<details.goals>>],
                      [header |-> "### Memory: Prior Decisions ###",
                       body |-> memory_prior_decisions],
                      [header |-> "### Instructions ###",
                       body |-> <<details.task, Join(names, ", "), Join(titles, ", "),
                                  conflict_strategy>>] >>])

(***************************************************************************)
(* shared_functions.generate_prompt                                        *)
(* cfg is the outcome of configure_litellm(), agents[i] the outcome of the *)
(* completion call for the i-th persona, workflow the outcome of the       *)
(* workflow call.  agent_configs lists the entries in insertion order.     *)
(***************************************************************************)
\* json.loads(content.strip()) inside a try block whose handler gives {}
config_or_empty(o) ==
    IF o.kind = "raise" THEN JDict(<<>>)
    ELSE LET parsed == json_loads(strip(o.text)) IN
         IF parsed.ok THEN parsed.val ELSE JDict(<<>>)

\* the completion calls of generate_prompt: one per persona whose six fields
\* can be read, up to the first persona without a name (whose KeyError leaves
\* the function), then the one for the workflow
sf_generate_prompt_calls(ps, cfg) ==
    IF cfg.exc # "none" THEN <<>>
    ELSE LET plist == Iterate(ps)
             unnamed == {i \in 1..Len(plist) : SubscriptError(plist[i], {"name"}) # "none"}
             stop == IF unnamed = {} THEN Len(plist) + 1
                     ELSE CHOOSE i \in unnamed : \A j \in unnamed : i <= j
             issued == {i \in 1..(stop - 1) :
                           SubscriptError(plist[i], BaseFields) = "none"}
         IN [k \in 1..Cardinality(issued) |-> "generate_prompt.agent"]
            \o (IF unnamed = {} THEN <<"generate_prompt.workflow">> ELSE <<>>)

sf_generate_prompt(details, ps, sources, conflict_strategy, prior_decisions, cfg, agents, workflow) ==
    IF cfg.exc # "none" THEN Failed(cfg.exc)
    ELSE
    LET plist == Iterate(ps)
        slist == Iterate(sources)
        \* the handler of the loop reads persona['name'] itself
        nerr == FirstError(plist, {"name"})
        serr == FirstError(slist, {"title", "url"})
    IN IF nerr # "none" THEN Failed(nerr)
       ELSE IF serr # "none" THEN Failed(serr)
       ELSE Returned(
              [t |-> "configuration",
               agent_configs |->
                   [i \in 1..Len(plist) |->
                       [name |-> plist[i].d["name"],
                        config |-> IF SubscriptError(plist[i], BaseFields) = "none"
                                   THEN config_or_empty(agents[i])
                                   ELSE JDict(<<>>)]],
               workflow_config |-> config_or_empty(workflow),
               task |-> details.task,
               knowledge_sources |->
                   [i \in 1..Len(slist) |->
                       [title |-> slist[i].d["title"], url |-> slist[i].d["url"]]],
               conflict_resolution |-> conflict_strategy,
               memory |-> [personas |-> [i \in 1..Len(plist) |-> plist[i].d["name"]],
                           task_goals |-> details.goals,
                           prior_decisions |-> prior_decisions]])

(***************************************************************************)
(* utils.get_user_input                                                    *)
(***************************************************************************)
RECURSIVE split(_, _)
\* str.split(sep): the pieces between the separators, empty pieces included
split(s, sep) ==
    LET i == find(s, sep) IN
    IF i = 0 THEN <<s>>
    ELSE <<SubSeq(s, 1, i - 1)>> \o split(SubSeq(s, i + 1, Len(s)), sep)

RECURSIVE unstripped_lines(_)
\* a comprehension that keeps url instead of url.strip()
unstripped_lines(lines) ==
    IF lines = <<>> THEN <<>>
    ELSE IF strip(Head(lines)) # <<>>
         THEN <<Head(lines)>> \o unstripped_lines(Tail(lines))
         ELSE unstripped_lines(Tail(lines))

RECURSIVE stripped_lines(_)
\* [url.strip() for url in lines if url.strip()]
stripped_lines(lines) ==
    IF lines = <<>> THEN <<>>
    ELSE IF strip(Head(lines)) # <<>>
         THEN <<strip(Head(lines))>> \o stripped_lines(Tail(lines))
         ELSE stripped_lines(Tail(lines))

\* a form that returns the lines as typed
get_user_input_unstripped(reference_urls_text) ==
    unstripped_lines(split(reference_urls_text, "nl"))

\* the "reference_urls" entry of the returned dict
get_user_input(reference_urls_text) == stripped_lines(split(reference_urls_text, "nl"))

(***************************************************************************)
(* agent.enhanced_agents: handle_error and EnhancedAgent.process_message   *)
(***************************************************************************)
MAX_RETRIES == 3

\* TRUE: retry
handle_error(count) == count < MAX_RETRIES

RECURSIVE process_message(_, _, _)
\* self is [retry_count, conversation_history, attempts]; failures is the
\* number of times in a row the base class's processing raises from now on.
\* The result adds exc, the exception that leaves the call.
process_message(self, entry, failures) ==
    LET appended == [self EXCEPT !.conversation_history = Append(@, entry),
                                 !.attempts = @ + 1]
    IN IF failures = 0
       THEN [retry_count |-> appended.retry_count,
             conversation_history |-> appended.conversation_history,
             attempts |-> appended.attempts, exc |-> "none"]
       ELSE IF handle_error(appended.retry_count)
       THEN process_message([appended EXCEPT !.retry_count = @ + 1], entry, failures - 1)
       ELSE [retry_count |-> appended.retry_count,
             conversation_history |-> appended.conversation_history,
             attempts |-> appended.attempts, exc |-> "Exception"]

(***************************************************************************)
(* agent.enhanced_agents: WebResearchAgent                                 *)
(***************************************************************************)
Urls == {"http://a", "http://b"}

\* session.get(url, timeout=10) followed by raise_for_status(): the text of
\* the page, or a requests.RequestException
RequestFailed == [kind |-> "raise", text |-> <<"timeout">>]
PageTexts ==
    {<<>>, <<"w">>, <<"sp", "w", "nl", "sp", "nl", "w", "sp">>,
     <<"Error:", "sp", "w">>, <<"nl", "v">>}
RequestOutcomes == {RequestFailed} \cup {Text(t) : t \in PageTexts}

RECURSIVE JoinLines(_)
\* '\n'.join(lines)
JoinLines(lines) ==
    IF lines = <<>> THEN <<>>
    ELSE IF Len(lines) = 1 THEN lines[1]
    ELSE lines[1] \o <<"nl">> \o JoinLines(Tail(lines))

\* '\n'.join(line.strip() for line in content.splitlines() if line.strip())
clean(content) == JoinLines(stripped_lines(split(content, "nl")))

\* f"Error fetching URL {url}: {str(e)}"
error_msg(url, e) == <<"Error fetching URL ", url, ": ">> \o e

\* str.startswith("Error:")
startswith_Error(content) == content # <<>> /\ content[1] = "Error:"

\* a fetch that stores its error message in the cache
fetch_url_content_caching_errors(cache0, visited0, url, cache, o) ==
    IF cache /\ cache0[url].set
    THEN [val |-> cache0[url].v, url_cache |-> cache0, visited_urls |-> visited0,
          requests |-> 0]
    ELSE LET content == IF o.kind = "raise" THEN error_msg(url, o.text) ELSE clean(o.text)
         IN [val |-> content,
             url_cache |-> IF cache THEN [cache0 EXCEPT ![url] = Set(content)] ELSE cache0,
             visited_urls |-> IF cache THEN visited0 \cup {url} ELSE visited0,
             requests |-> 1]

\* [val, url_cache, visited_urls, requests]
fetch_url_content(cache0, visited0, url, cache, o) ==
    IF cache /\ cache0[url].set
    THEN [val |-> cache0[url].v, url_cache |-> cache0, visited_urls |-> visited0,
          requests |-> 0]
    ELSE IF o.kind = "raise"
    THEN [val |-> error_msg(url, o.text), url_cache |-> cache0,
          visited_urls |-> visited0, requests |-> 1]
    ELSE LET content == clean(o.text)
         IN [val |-> content,
             url_cache |-> IF cache THEN [cache0 EXCEPT ![url] = Set(content)] ELSE cache0,
             visited_urls |-> IF cache THEN visited0 \cup {url} ELSE visited0,
             requests |-> 1]

\* the "url", "content_length" and "metadata"."success" entries of the
\* analysis, content being what fetch_url_content(url) returned
analyze_url_content(url, content) ==
    [t |-> "analysis", url |-> url, content_length |-> Len(content),
     success |-> ~startswith_Error(content)]

(***************************************************************************)
(* advanced_menu: the emotional tone score                                 *)
(***************************************************************************)
tone_weights ==
    [focused |-> 10, inspired |-> 9, excited |-> 8, determined |-> 7,
     collaborative |-> 6, urgent |-> 5, motivated |-> 4, ambitious |-> 3,
     curious |-> 2, reflective |-> 1, frustrated |-> -1, anxious |-> -2,
     overwhelmed |-> -3, apprehensive |-> -4, disappointed |-> -5, elated |-> 10,
     proud |-> 9, happy |-> 8, sad |-> -6, angry |-> -7, afraid |-> -8,
     surprised |-> 0, neutral |-> 0]

\* a persona is its "emotional_tone" entry: has_tone says whether the key exists
NoTone == [has_tone |-> FALSE, emotional_tone |-> ""]
WithTone(tone) == [has_tone |-> TRUE, emotional_tone |-> tone]

\* persona.get("emotional_tone", "neutral")
tone_or_neutral(persona) ==
    IF persona.has_tone THEN persona.emotional_tone ELSE "neutral"

\* tone_weights.get(tone, 0)
weight(tone) == IF tone \in DOMAIN tone_weights THEN tone_weights[tone] ELSE 0

RECURSIVE calculate_emotional_tone_score(_)
calculate_emotional_tone_score(ps) ==
    IF ps = <<>> THEN 0
    ELSE weight(tone_or_neutral(Head(ps))) + calculate_emotional_tone_score(Tail(ps))

predict_project_success(n) ==
    IF n > 50 THEN "High chance of success"
    ELSE IF n > 20 THEN "Moderate chance of success"
    ELSE IF n > 0 THEN "Low chance of success"
    ELSE "High risk of failure"

positive_tones ==
    {"focused", "inspired", "excited", "determined", "collaborative", "urgent",
     "motivated", "ambitious", "curious", "reflective", "elated", "proud", "happy"}

\* an improvement that defaults to the neutral tone
improve_emotional_tone_neutral(ps) ==
    [i \in 1..Len(ps) |->
        IF ~ps[i].has_tone \/ ps[i].emotional_tone \notin positive_tones
        THEN WithTone("neutral")
        ELSE ps[i]]

\* persona.get("emotional_tone") is None when the key is missing
improve_emotional_tone(ps) ==
    [i \in 1..Len(ps) |->
        IF ~ps[i].has_tone \/ ps[i].emotional_tone \notin positive_tones
        THEN WithTone("motivated")
        ELSE ps[i]]

(***************************************************************************)
(* homepage.chat_interaction: the chat interface and the auto chat         *)
(***************************************************************************)
\* {"role": role, "content": content}
Message(role, content) == [role |-> role, content |-> content]

\* the auto_chat threads that are in their loop
Running(threads) == {t \in DOMAIN threads : threads[t] \in {"sleep", "completion"}}

\* threading.Thread(target=auto_chat).start(): the next thread enters its loop
start(threads) ==
    LET t == CHOOSE u \in DOMAIN threads :
                 /\ threads[u] = "unstarted"
                 /\ \A v \in DOMAIN threads : threads[v] = "unstarted" => u <= v
    IN [threads EXCEPT ![t] = "sleep"]

\* the end of the script run: the checkbox is read and a thread is started
enable_auto_chat(checked, threads) == IF checked THEN start(threads) ELSE threads

\* a script run starts a thread only while the model has one left to start
CanRun(checked, threads) ==
    checked => \E t \in DOMAIN threads : threads[t] = "unstarted"

(***************************************************************************)
(* llm_interaction.submit_prompt_to_llm                                    *)
(***************************************************************************)
\* [exc, val]; model_arg is the optional second argument, cfg the outcome of
\* configure_litellm(), which is called only when the argument is None
li_submit_prompt_to_llm(model_arg, cfg, o) ==
    IF ~model_arg.set /\ cfg.exc # "none" THEN Failed(cfg.exc)
    ELSE IF o.kind = "raise"
         THEN Returned(JDict([error |-> Str("{e}", <<o.text>>, 0)]))
    ELSE Returned(JDict([content |-> Str("llm text", strip(o.text), 0),
                         metadata |-> [model |-> IF model_arg.set THEN model_arg.v
                                                 ELSE cfg.val,
                                       temperature |-> "0.7"]]))

(***************************************************************************)
(* persona_testing: configure_litellm, autochat, submit_prompt_to_llm      *)
(***************************************************************************)
pt_providers == {"openai", "groq", "deepseek", "huggingface", "ollama"}

\* [exc, val, api_key]: the model, and litellm.api_key, which the deepseek and
\* ollama branches assign
pt_configure_litellm(env, api_key0) ==
    LET configured == env.LITELLM_MODEL
        provider == env.LITELLM_PROVIDER
    IN IF ~Truthy(configured) \/ ~Truthy(provider)
       THEN [exc |-> "ValueError", val |-> None, api_key |-> api_key0]
       ELSE IF Len(provider.v) # 1 \/ provider.v[1] \notin pt_providers
       THEN [exc |-> "ValueError", val |-> None, api_key |-> api_key0]
       ELSE IF ~Truthy(env.keys[provider.v[1]])
       THEN [exc |-> "ValueError", val |-> None, api_key |-> api_key0]
       ELSE [exc |-> "none", val |-> configured.v,
             api_key |-> IF provider.v[1] \in {"deepseek", "ollama"}
                         THEN env.keys[provider.v[1]].v ELSE api_key0]

\* for i in range(10)
ExchangeRounds == 10

\* the exception of building the prompt from the chosen persona:
\* persona.get, persona['name'], persona['goals']
PromptError(persona) ==
    IF persona.t # "dict" THEN "AttributeError"
    ELSE SubscriptError(persona, {"name", "goals"})

\* [exc, messages, calls].  pick[k] is the persona random.choice returns in
\* the k-th pass of the inner loop, fail the pass whose completion call
\* raises (0: none does).  No try block: the first exception leaves the
\* function with the messages appended so far.
autochat(ps, n, cfg, pick, fail, messages0) ==
    IF cfg.exc # "none"
    THEN [exc |-> cfg.exc, messages |-> messages0, calls |-> <<>>]
    ELSE
    LET total == ExchangeRounds * n
        plist == Iterate(ps)
        PassError(k) ==
            IF plist = <<>> THEN "IndexError"
            ELSE IF PromptError(plist[pick[k]]) # "none"
                 THEN PromptError(plist[pick[k]])
            ELSE IF k = fail THEN "Exception"
            ELSE "none"
        failing == {k \in 1..total : PassError(k) # "none"}
        stop == IF failing = {} THEN total + 1
                ELSE CHOOSE k \in failing : \A j \in failing : k <= j
        appended ==
            [k \in 1..(stop - 1) |->
                [role |-> "system",
                 content |-> Str("{persona['name']}: {message}",
                                 <<plist[pick[k]].d["name"], <<"w">>>>, 0)]]
    IN [exc |-> IF stop > total THEN "none" ELSE PassError(stop),
        messages |-> messages0 \o appended,
        calls |-> [k \in 1..(IF stop <= total /\ PassError(stop) # "Exception"
                              THEN stop - 1
                              ELSE IF stop > total THEN total ELSE stop)
                      |-> "autochat"]]

\* the nested function of page1: no configure_litellm call, the model name
\* read from the environment with a default
pt_submit_prompt_to_llm(o) ==
    IF o.kind = "raise"
    THEN Returned(Str("An error occurred: {e}", <<o.text>>, 0))
    ELSE Returned(Str("llm text", strip(o.text), 0))

(***************************************************************************)
(* Specification of the persona generators, run with a usable model        *)
(* configuration                                                           *)
(***************************************************************************)
\* the sidebar form before get_user_input has run
FormFresh ==
    /\ urls_input = <<>>
    /\ reference_urls = None
    /\ presses = 0

\* EnhancedAgent.__init__
AgentFresh ==
    /\ retry_count = 0
    /\ conversation_history = <<>>
    /\ attempts = 0
    /\ agent_calls = 0

\* WebResearchAgent.__init__
WebFresh ==
    /\ url_cache = [u \in Urls |-> Unset]
    /\ visited_urls = {}
    /\ web_url = "none"
    /\ web_cache = TRUE
    /\ web_outcome = RequestFailed
    /\ web_requests = 0
    /\ fetched = <<>>
    /\ analysis = None
    /\ web_calls = 0

\* homepage.chat_interaction before its first run
PageFresh ==
    /\ st_messages = <<>>
    /\ auto_chat_enabled = FALSE
    /\ auto_chat_threads = [t \in 1..MaxThreads |-> "unstarted"]

\* advanced_menu before page2 has run, the personas of the latest task_memory
\* row being one of rows
ToneFreshOver(rows) ==
    /\ db_personas \in rows
    /\ score = 0
    /\ prediction = ""
    /\ improved_score = 0
    /\ improved_prediction = ""
    /\ improvements = 0

\* advanced_menu before page2 has run, the task_memory table being empty
ToneFresh == ToneFreshOver({<<>>})

\* the variables as they are before any operation has run (main.py:18-29), the
\* personas of the latest task_memory row being one of rows
FreshOver(rows) ==
    /\ pc = "ready"
    /\ llm_domain = Raise
    /\ llm_knowledge = Raise
    /\ llm_conflicts = Raise
    /\ llm_agents = <<>>
    /\ domain = <<>>
    /\ personas = None
    /\ enhanced = None
    /\ knowledge_sources = None
    /\ conflict_resolution = None
    /\ current_prompt = None
    /\ chat_history = <<>>
    /\ litellm_api_key = None
    /\ model = None
    /\ resolutions = 0
    /\ completions = <<>>
    /\ messages = <<>>
    /\ response = None
    /\ num_users = 0
    /\ FormFresh
    /\ AgentFresh
    /\ WebFresh
    /\ ToneFreshOver(rows)
    /\ PageFresh
    /\ raised = "none"

\* the variables as they are before any operation has run (main.py:18-29)
Fresh == FreshOver({<<>>})

\* an environment in which configure_litellm finds a model
UsableEnviron ==
    [LITELLM_MODEL |-> Set(<<"gpt-3.5-turbo">>), LITELLM_PROVIDER |-> Set(<<"openai">>),
     keys |-> [p \in ProviderNames |-> IF p = "openai" THEN Set(<<"sk">>) ELSE Unset]]

\* no model is configured and groq is the first provider with a key
ScanEnviron ==
    [LITELLM_MODEL |-> Unset, LITELLM_PROVIDER |-> Unset,
     keys |-> [p \in ProviderNames |->
                  IF p = "openai" THEN Set(<<"sp">>)
                  ELSE IF p = "groq" THEN Set(<<"sk">>) ELSE Unset]]

\* no provider has a key
NoCredentials ==
    [LITELLM_MODEL |-> Set(<<"gpt-3.5-turbo">>), LITELLM_PROVIDER |-> Set(<<"openai">>),
     keys |-> [p \in ProviderNames |-> IF p = "openai" THEN Set(<<>>) ELSE Unset]]

Environs == {UsableEnviron, ScanEnviron, NoCredentials}

\* the outcomes of the enhancer's completion call inside generate_personas
PersonaEnhancerOutcomes == {Raise, Text(<<"{", "kt", ",", "kg", "}">>)}

InitPersona ==
    /\ Fresh
    /\ environ = UsableEnviron
    /\ task_details \in [task : Tasks, goals : Goals]
    /\ decisions = <<>>
    /\ \/ persona_count \in 1..MaxCount /\ llm \in ArrayOutcomes
       \/ persona_count = 1 /\ llm \in DomainOutcomes

\* shared_functions.generate_personas, with its calls of
\* enhance_task_description and configure_litellm
SharedGenerate ==
    /\ pc = "ready"
    /\ llm \in ArrayOutcomes
    /\ \E e \in PersonaEnhancerOutcomes :
        LET c1 == configure_litellm(environ, litellm_api_key)
            enhanced_task_details ==
                enhance_task_description(task_details.task, task_details.goals, c1, e)
            c2 == IF c1.exc = "none" THEN configure_litellm(c1.environ, c1.api_key) ELSE c1
            r == sf_generate_personas(persona_count, enhanced_task_details, c2, llm)
        IN /\ enhanced' = IF enhanced_task_details.exc = "none"
                          THEN enhanced_task_details.val ELSE enhanced
           /\ personas' = IF r.exc = "none" THEN r.val ELSE personas
           /\ raised' = r.exc
           /\ environ' = c2.environ
           /\ litellm_api_key' = c2.api_key
           /\ model' = c2.val
           /\ resolutions' = resolutions + (IF c1.exc = "none" THEN 2 ELSE 1)
           /\ completions' = enhance_task_description_calls(c1, e)
                                 \o sf_generate_personas_calls(enhanced_task_details, c2, llm)
    /\ pc' = "shared_functions.generate_personas"
    /\ UNCHANGED auxVars
    /\ UNCHANGED <<inputVars, stageLlmVars, domain, sessionVars, chatVars>>

\* persona_management.generate_personas, with its call of detect_task_domain
ManagementGenerate ==
    /\ pc = "ready"
    /\ llm \in ArrayOutcomes
    /\ \E d \in DomainOutcomes :
           /\ llm_domain' = d
           /\ domain' = detect_task_domain(d)
           /\ personas' = pm_generate_personas(task_details.task, persona_count,
                                               detect_task_domain(d), llm)
           /\ completions' = detect_task_domain_calls(d) \o pm_generate_personas_calls(llm)
    /\ pc' = "persona_management.generate_personas"
    /\ UNCHANGED auxVars
    /\ UNCHANGED <<configVars, chatVars>>
    /\ UNCHANGED <<inputVars, llm_knowledge, llm_conflicts, llm_agents, enhanced, sessionVars, raised>>

DetectDomain ==
    /\ pc = "ready"
    /\ llm \in DomainOutcomes
    /\ domain' = detect_task_domain(llm)
    /\ completions' = detect_task_domain_calls(llm)
    /\ pc' = "detect_task_domain"
    /\ UNCHANGED auxVars
    /\ UNCHANGED <<configVars, chatVars>>
    /\ UNCHANGED <<inputVars, stageLlmVars, personas, enhanced, sessionVars, raised>>

NextPersona == SharedGenerate \/ ManagementGenerate \/ DetectDomain

SpecPersona == InitPersona /\ [][NextPersona]_vars

(***************************************************************************)
(* Specification of the other single-call stages                           *)
(***************************************************************************)
InitStages ==
    /\ Fresh
    /\ environ \in Environs
    /\ task_details \in [task : Tasks, goals : Goals]
    /\ decisions = <<>>
    /\ persona_count = 1
    /\ llm \in ObjectOutcomes \cup KnowledgeOutcomes \cup PlainOutcomes

Enhance ==
    /\ pc = "ready"
    /\ llm \in ObjectOutcomes
    /\ LET cfg == configure_litellm(environ, litellm_api_key)
           r == enhance_task_description(task_details.task, task_details.goals, cfg, llm)
       IN /\ enhanced' = IF r.exc = "none" THEN r.val ELSE enhanced
          /\ raised' = r.exc
          /\ environ' = cfg.environ
          /\ litellm_api_key' = cfg.api_key
          /\ model' = cfg.val
          /\ resolutions' = resolutions + 1
          /\ completions' = enhance_task_description_calls(cfg, llm)
    /\ pc' = "enhance_task_description"
    /\ UNCHANGED auxVars
    /\ UNCHANGED <<inputVars, stageLlmVars, domain, personas, sessionVars, chatVars>>

FetchKnowledgeSources ==
    /\ pc = "ready"
    /\ llm \in KnowledgeOutcomes
    /\ LET cfg == configure_litellm(environ, litellm_api_key)
           r == fetch_knowledge_sources(cfg, llm)
       IN /\ knowledge_sources' = IF r.exc = "none" THEN r.val ELSE knowledge_sources
          /\ raised' = r.exc
          /\ environ' = cfg.environ
          /\ litellm_api_key' = cfg.api_key
          /\ model' = cfg.val
          /\ resolutions' = resolutions + 1
          /\ completions' = fetch_knowledge_sources_calls(cfg, llm)
    /\ pc' = "fetch_knowledge_sources"
    /\ UNCHANGED auxVars
    /\ UNCHANGED <<inputVars, stageLlmVars, domain, personas, enhanced,
                   conflict_resolution, current_prompt, chat_history, chatVars>>

LIFetchKnowledgeSources ==
    /\ pc = "ready"
    /\ llm \in KnowledgeOutcomes
    /\ LET cfg == configure_litellm(environ, litellm_api_key)
           r == li_fetch_knowledge_sources(cfg, llm)
       IN /\ knowledge_sources' = IF r.exc = "none" THEN r.val ELSE knowledge_sources
          /\ raised' = r.exc
          /\ environ' = cfg.environ
          /\ litellm_api_key' = cfg.api_key
          /\ model' = cfg.val
          /\ resolutions' = resolutions + 1
          /\ completions' = fetch_knowledge_sources_calls(cfg, llm)
    /\ pc' = "llm_interaction.fetch_knowledge_sources"
    /\ UNCHANGED auxVars
    /\ UNCHANGED <<inputVars, stageLlmVars, domain, personas, enhanced,
                   conflict_resolution, current_prompt, chat_history, chatVars>>

ResolveConflicts ==
    /\ pc = "ready"
    /\ llm \in PlainOutcomes
    /\ LET cfg == configure_litellm(environ, litellm_api_key)
           r == resolve_conflicts(cfg, llm)
       IN /\ conflict_resolution' = IF r.exc = "none" THEN r.val ELSE conflict_resolution
          /\ raised' = r.exc
          /\ environ' = cfg.environ
          /\ litellm_api_key' = cfg.api_key
          /\ model' = cfg.val
          /\ resolutions' = resolutions + 1
          /\ completions' = resolve_conflicts_calls(cfg, llm)
    /\ pc' = "resolve_conflicts"
    /\ UNCHANGED auxVars
    /\ UNCHANGED <<inputVars, stageLlmVars, domain, personas, enhanced,
                   knowledge_sources, current_prompt, chat_history, chatVars>>

NextStages ==
    Enhance \/ FetchKnowledgeSources \/ LIFetchKnowledgeSources \/ ResolveConflicts

SpecStages == InitStages /\ [][NextStages]_vars

(***************************************************************************)
(* Specification of one run of the pipeline: the "Generate (No AutoGen)"   *)
(* button of the main page, pressed in a fresh session.  Each stage's LLM  *)
(* call has one of the listed outcomes.                                    *)
(***************************************************************************)
PipeDomainOutcomes == {Raise, Text(<<"Creative">>), Text(<<"banana">>)}

PipePersonaOutcomes ==
    {Raise, Text(<<>>), Text(<<"w">>),
     Text(<<"[", "oSix", "]">>), Text(<<"[", "oTwo", "]">>),
     Text(<<"[", "oSix", ",", "oFull", "]">>), Text(<<"[", "oSix", ",", "oTwo", "]">>),
     Text(<<"oSix">>), Text(<<"[", "[", "]", "]">>), Text(<<"[", "]">>)}

PipeKnowledgeOutcomes ==
    {Raise, Text(<<"w">>), Text(<<"[", "]">>), Text(<<"[", "kFull", "]">>),
     Text(<<"[", "kFull", ",", "kFull", "]">>), Text(<<"[", "kBare", "]">>)}

PipeConflictOutcomes == {Raise, Text(<<"sp">>), Text(<<"w">>)}

InitPipeline ==
    /\ Fresh
    /\ environ \in Environs
    /\ task_details \in [task : Tasks, goals : Goals]
    /\ decisions = <<>>
    /\ persona_count \in 1..MaxCount
    /\ llm = Raise

\* main.py:266-297; an exception ends the run and keeps the session state
\* assigned so far
Generate ==
    /\ pc = "ready"
    /\ \E d \in PipeDomainOutcomes, op \in PipePersonaOutcomes,
          ok \in PipeKnowledgeOutcomes, oc \in PipeConflictOutcomes :
        LET dom == detect_task_domain(d)
            ps == pm_generate_personas(task_details.task, persona_count, dom, op)
            c1 == configure_litellm(environ, litellm_api_key)
            ks == fetch_knowledge_sources(c1, ok)
            c2 == IF ks.exc = "none" THEN configure_litellm(c1.environ, c1.api_key) ELSE c1
            cr == IF ks.exc = "none" THEN resolve_conflicts(c2, oc) ELSE Failed(ks.exc)
            pr == IF cr.exc = "none"
                  THEN generate_prompt(task_details, ps, ks.val, cr.val, <<>>,
                           "Standard prompt generation without AutoGen.", FALSE)
                  ELSE Failed(cr.exc)
        IN /\ llm_domain' = d
           /\ llm' = op
           /\ llm_knowledge' = ok
           /\ llm_conflicts' = oc
           /\ domain' = dom
           /\ personas' = ps
           /\ knowledge_sources' = IF ks.exc = "none" THEN ks.val ELSE knowledge_sources
           /\ conflict_resolution' = IF cr.exc = "none" THEN cr.val ELSE conflict_resolution
           /\ current_prompt' = IF pr.exc = "none" THEN pr.val ELSE current_prompt
           /\ chat_history' =
                  IF pr.exc = "none"
                  THEN Append(chat_history,
                              [role |-> "system",
                               content |-> "Generated prompt without AutoGen:",
                               markdown |-> generate_markdown_output(pr.val)])
                  ELSE chat_history
           /\ raised' = pr.exc
           /\ environ' = c2.environ
           /\ litellm_api_key' = c2.api_key
           /\ model' = c2.val
           /\ resolutions' = resolutions + (IF ks.exc = "none" THEN 2 ELSE 1)
           /\ completions' = detect_task_domain_calls(d) \o pm_generate_personas_calls(op)
                                 \o fetch_knowledge_sources_calls(c1, ok)
                                 \o (IF ks.exc = "none"
                                     THEN resolve_conflicts_calls(c2, oc) ELSE <<>>)
    /\ pc' = "Generate"
    /\ UNCHANGED auxVars
    /\ UNCHANGED <<task_details, persona_count, decisions, llm_agents, enhanced, chatVars>>

NextPipeline == Generate

SpecPipeline == InitPipeline /\ [][NextPipeline]_vars

(***************************************************************************)
(* Specification of the model resolver: any environment, and any number of *)
(* calls of configure_litellm.                                             *)
(***************************************************************************)
\* an API key variable: not set, empty, whitespace, or a key
Credentials == {Unset, Set(<<>>), Set(<<"sp">>), Set(<<"sk">>)}

ModelSettings == {Unset, Set(<<>>), Set(<<"sp">>), Set(<<"my-model">>)}

ProviderSettings == {Unset, Set(<<"OpenAI">>), Set(<<"mistral">>), Set(<<"azure">>)}

InitResolver ==
    /\ Fresh
    /\ task_details \in [task : Tasks, goals : Goals]
    /\ decisions = <<>>
    /\ persona_count = 1
    /\ llm = Raise
    /\ environ \in [LITELLM_MODEL : ModelSettings,
                    LITELLM_PROVIDER : ProviderSettings,
                    keys : [ProviderNames -> Credentials]]

Configure ==
    /\ resolutions < MaxResolutions
    /\ LET r == configure_litellm(environ, litellm_api_key)
       IN /\ model' = r.val
          /\ raised' = r.exc
          /\ environ' = r.environ
          /\ litellm_api_key' = r.api_key
          /\ resolutions' = resolutions + 1
    /\ pc' = "configure_litellm"
    /\ UNCHANGED auxVars
    /\ UNCHANGED <<inputVars, stageLlmVars, domain, personas, enhanced, sessionVars,
                   completions, chatVars>>

NextResolver == Configure

SpecResolver == InitResolver /\ [][NextResolver]_vars

(***************************************************************************)
(* Specification of a session of the main page: the three buttons pressed  *)
(* in any order.  A handler that raises ends the script run and keeps the  *)
(* session state assigned so far.                                          *)
(***************************************************************************)
SessionPersonaOutcomes ==
    {Raise, Text(<<"[", "oSix", "]">>), Text(<<"[", "oTwo", "]">>),
     Text(<<"[", "oSix", ",", "oFull", "]">>)}

SessionKnowledgeOutcomes == {Raise, Text(<<"[", "kFull", "]">>), Text(<<"[", "kBare", "]">>)}

InitSession ==
    /\ Fresh
    /\ environ \in Environs
    /\ task_details \in [task : Tasks, goals : Goals]
    /\ decisions = <<>>
    /\ persona_count \in 1..MaxCount
    /\ llm = Raise

\* the statements the two Generate handlers share, up to the assignment of
\* current_prompt (main.py:270-288 and 304-327)
GenerateContent(additional_context, use_autogen, label) ==
    \E op \in SessionPersonaOutcomes, ok \in SessionKnowledgeOutcomes :
        LET d == Raise
            oc == Raise
            dom == detect_task_domain(d)
            ps == pm_generate_personas(task_details.task, persona_count, dom, op)
            c1 == configure_litellm(environ, litellm_api_key)
            ks == fetch_knowledge_sources(c1, ok)
            c2 == IF ks.exc = "none" THEN configure_litellm(c1.environ, c1.api_key) ELSE c1
            cr == IF ks.exc = "none" THEN resolve_conflicts(c2, oc) ELSE Failed(ks.exc)
            pr == IF cr.exc = "none"
                  THEN generate_prompt(task_details, ps, ks.val, cr.val, <<>>,
                                       additional_context, use_autogen)
                  ELSE Failed(cr.exc)
        IN /\ llm_domain' = d
           /\ llm' = op
           /\ llm_knowledge' = ok
           /\ llm_conflicts' = oc
           /\ domain' = dom
           /\ personas' = ps
           /\ knowledge_sources' = IF ks.exc = "none" THEN ks.val ELSE knowledge_sources
           /\ conflict_resolution' = IF cr.exc = "none" THEN cr.val ELSE conflict_resolution
           /\ current_prompt' = IF pr.exc = "none" THEN pr.val ELSE current_prompt
           /\ chat_history' =
                  IF pr.exc # "none" THEN chat_history
                  ELSE LET shown == [role |-> "system", content |-> label,
                                     markdown |-> generate_markdown_output(pr.val)]
                       IN IF use_autogen
                          THEN chat_history \o
                               <<shown, [role |-> "system", content |-> "AutoGen Workflow:",
                                         markdown |-> <<"workflow_code">>]>>
                          ELSE Append(chat_history, shown)
           /\ raised' = pr.exc
           /\ environ' = c2.environ
           /\ litellm_api_key' = c2.api_key
           /\ model' = c2.val
           /\ resolutions' = resolutions + (IF ks.exc = "none" THEN 2 ELSE 1)
           /\ completions' = detect_task_domain_calls(d) \o pm_generate_personas_calls(op)
                                 \o fetch_knowledge_sources_calls(c1, ok)
                                 \o (IF ks.exc = "none"
                                     THEN resolve_conflicts_calls(c2, oc) ELSE <<>>)

\* either Generate button: the two handlers differ in use_autogen, in the
\* additional context and in the content of the chat entry
PressGenerate ==
    /\ presses < MaxPresses
    /\ \E use_autogen \in BOOLEAN :
        /\ GenerateContent(
               IF use_autogen THEN "Enhanced prompt generation with AutoGen workflow."
                              ELSE "Standard prompt generation without AutoGen.",
               use_autogen,
               IF use_autogen THEN "Generated prompt with AutoGen:"
                              ELSE "Generated prompt without AutoGen:")
        /\ pc' = IF use_autogen THEN "Generate with AutoGen" ELSE "Generate"
    /\ presses' = presses + 1
    /\ UNCHANGED <<task_details, persona_count, decisions, llm_agents, enhanced,
                   chatVars, formVars, agentVars, webVars, toneVars,
                   pageVars>>

\* clear_chat() and st.rerun()
PressClearChat ==
    /\ presses < MaxPresses
    /\ chat_history' = <<>>
    /\ current_prompt' = None
    /\ personas' = None
    /\ knowledge_sources' = None
    /\ conflict_resolution' = None
    /\ raised' = "none"
    /\ presses' = presses + 1
    /\ pc' = "Clear Chat"
    /\ UNCHANGED <<inputVars, stageLlmVars, domain, enhanced, configVars, completions,
                   chatVars, formVars, agentVars, webVars, toneVars,
                   pageVars>>

NextSession == PressGenerate \/ PressClearChat

SpecSession == InitSession /\ [][NextSession]_vars

(***************************************************************************)
(* Specification of one EnhancedAgent: process_message called several      *)
(* times; the processing of each call succeeds at once, after some         *)
(* failures, or keeps failing.                                             *)
(***************************************************************************)
AgentMessages == {"hello", "TASK COMPLETED"}

\* failures in a row before the processing succeeds; MAX_RETRIES + 1 and more
\* outlast every retry
FailureRuns == 0..(MAX_RETRIES + 1)

InitAgent ==
    /\ Fresh
    /\ environ = UsableEnviron
    /\ task_details \in [task : Tasks, goals : Goals]
    /\ decisions = <<>>
    /\ persona_count = 1
    /\ llm = Raise

ProcessMessage ==
    /\ agent_calls < MaxAgentCalls
    /\ \E message \in AgentMessages, failures \in FailureRuns :
        LET r == process_message([retry_count |-> retry_count,
                                  conversation_history |-> conversation_history,
                                  attempts |-> 0],
                                 [sender |-> "user", message |-> message], failures)
        IN /\ retry_count' = r.retry_count
           /\ conversation_history' = r.conversation_history
           /\ attempts' = r.attempts
           /\ raised' = r.exc
    /\ agent_calls' = agent_calls + 1
    /\ pc' = "process_message"
    /\ UNCHANGED <<inputVars, stageLlmVars, domain, personas, enhanced, sessionVars,
                   configVars, completions, chatVars, formVars, presses, webVars,
                   toneVars, pageVars>>

NextAgent == ProcessMessage

SpecAgent == InitAgent /\ [][NextAgent]_vars

(***************************************************************************)
(* Specification of one WebResearchAgent: fetch_url_content and            *)
(* analyze_url_content called with any URL, with the cache on or off, and  *)
(* with any outcome of the request.                                        *)
(***************************************************************************)
InitWeb ==
    /\ Fresh
    /\ environ = UsableEnviron
    /\ task_details \in [task : Tasks, goals : Goals]
    /\ decisions = <<>>
    /\ persona_count = 1
    /\ llm = Raise

FetchUrlContent ==
    /\ web_calls < MaxWebCalls
    /\ \E url \in Urls, cache \in BOOLEAN, o \in RequestOutcomes :
        LET r == fetch_url_content(url_cache, visited_urls, url, cache, o)
        IN /\ web_url' = url
           /\ web_cache' = cache
           /\ web_outcome' = o
           /\ url_cache' = r.url_cache
           /\ visited_urls' = r.visited_urls
           /\ web_requests' = r.requests
           /\ fetched' = r.val
    /\ web_calls' = web_calls + 1
    /\ pc' = "fetch_url_content"
    /\ UNCHANGED <<inputVars, stageLlmVars, domain, personas, enhanced, sessionVars,
                   configVars, completions, chatVars, formVars, presses, agentVars,
                   analysis, toneVars, pageVars, raised>>

AnalyzeUrlContent ==
    /\ web_calls < MaxWebCalls
    /\ \E url \in Urls, o \in RequestOutcomes :
        LET r == fetch_url_content(url_cache, visited_urls, url, TRUE, o)
        IN /\ web_url' = url
           /\ web_cache' = TRUE
           /\ web_outcome' = o
           /\ url_cache' = r.url_cache
           /\ visited_urls' = r.visited_urls
           /\ web_requests' = r.requests
           /\ fetched' = r.val
           /\ analysis' = analyze_url_content(url, r.val)
    /\ web_calls' = web_calls + 1
    /\ pc' = "analyze_url_content"
    /\ UNCHANGED <<inputVars, stageLlmVars, domain, personas, enhanced, sessionVars,
                   configVars, completions, chatVars, formVars, presses, agentVars,
                   toneVars, pageVars, raised>>

NextWeb == FetchUrlContent \/ AnalyzeUrlContent

SpecWeb == InitWeb /\ [][NextWeb]_vars

(***************************************************************************)
(* Specification of the Advanced Menu page over a task_memory row holding  *)
(* any list of personas: each persona has one of the weighted tones, a     *)
(* tone the weights do not list, or no tone at all.                        *)
(***************************************************************************)
StoredTones == {WithTone(tone) : tone \in DOMAIN tone_weights \cup {"Focused"}} \cup {NoTone}

InitTone ==
    /\ FreshOver(UNION {[1..n -> StoredTones] : n \in 0..MaxTonePersonas})
    /\ environ = UsableEnviron
    /\ task_details = [task |-> <<"w">>, goals |-> <<"w">>]
    /\ decisions = <<>>
    /\ persona_count = 1
    /\ llm = Raise

\* page2 without a button pressed (an empty row returns after the warning)
ViewAdvancedMenu ==
    /\ pc = "ready"
    /\ IF db_personas = <<>>
       THEN UNCHANGED <<score, prediction>>
       ELSE /\ score' = calculate_emotional_tone_score(db_personas)
            /\ prediction' = predict_project_success(score')
    /\ pc' = "page2"
    /\ UNCHANGED <<inputVars, stageLlmVars, domain, personas, enhanced, sessionVars,
                   configVars, completions, chatVars, formVars, presses, agentVars,
                   webVars, db_personas, improved_score, improved_prediction,
                   improvements, pageVars, raised>>

\* page2 with "Improve Emotional Tone" pressed
ImproveEmotionalTone ==
    /\ improvements < MaxImprovements
    /\ db_personas # <<>>
    /\ score' = calculate_emotional_tone_score(db_personas)
    /\ prediction' = predict_project_success(score')
    /\ db_personas' = improve_emotional_tone(db_personas)
    /\ improved_score' = calculate_emotional_tone_score(db_personas')
    /\ improved_prediction' = predict_project_success(improved_score')
    /\ improvements' = improvements + 1
    /\ pc' = "improve_emotional_tone"
    /\ UNCHANGED <<inputVars, stageLlmVars, domain, personas, enhanced, sessionVars,
                   configVars, completions, chatVars, formVars, presses, agentVars,
                   webVars, pageVars, raised>>

NextTone == ViewAdvancedMenu \/ ImproveEmotionalTone

SpecTone == InitTone /\ [][NextTone]_vars

(***************************************************************************)
(* Specification of the chat page: script runs caused by Send, by the      *)
(* "Enable Auto Chat" checkbox and by any other widget, interleaved with   *)
(* the steps of the auto_chat threads.  No personas have been generated.   *)
(***************************************************************************)
InitPage ==
    /\ Fresh
    /\ environ = UsableEnviron
    /\ task_details = [task |-> <<"w">>, goals |-> <<"w">>]
    /\ decisions = <<>>
    /\ persona_count = 1
    /\ llm = Raise

PageUnchanged ==
    UNCHANGED <<inputVars, stageLlmVars, domain, personas, enhanced, sessionVars,
                configVars, completions, chatVars, formVars, presses, agentVars,
                webVars, toneVars>>

\* a script run with Send pressed and a non-empty input; a completion that
\* raises ends the run before the checkbox is read
Send ==
    /\ Len(st_messages) + 2 <= MaxPageMessages
    /\ CanRun(auto_chat_enabled, auto_chat_threads)
    /\ \E replied \in BOOLEAN :
        IF replied
        THEN /\ st_messages' = st_messages \o <<Message("user", "user_input"),
                                                 Message("assistant", "message")>>
             /\ auto_chat_threads' = enable_auto_chat(auto_chat_enabled, auto_chat_threads)
             /\ raised' = "none"
        ELSE /\ st_messages' = Append(st_messages, Message("user", "user_input"))
             /\ auto_chat_threads' = auto_chat_threads
             /\ raised' = "Exception"
    /\ pc' = "Send"
    /\ UNCHANGED auto_chat_enabled
    /\ PageUnchanged

\* the script run that follows a click on the checkbox
ToggleAutoChat ==
    /\ CanRun(~auto_chat_enabled, auto_chat_threads)
    /\ auto_chat_enabled' = ~auto_chat_enabled
    /\ auto_chat_threads' = enable_auto_chat(auto_chat_enabled', auto_chat_threads)
    /\ pc' = "checkbox"
    /\ raised' = "none"
    /\ UNCHANGED st_messages
    /\ PageUnchanged

\* a script run caused by any other widget (a changed input, Send with an
\* empty input)
Rerun ==
    /\ CanRun(auto_chat_enabled, auto_chat_threads)
    /\ auto_chat_threads' = enable_auto_chat(auto_chat_enabled, auto_chat_threads)
    /\ pc' = "rerun"
    /\ raised' = "none"
    /\ UNCHANGED <<st_messages, auto_chat_enabled>>
    /\ PageUnchanged

\* a thread wakes from time.sleep(10) and appends its user message
AutoChatWake ==
    /\ Len(st_messages) < MaxPageMessages
    /\ \E t \in DOMAIN auto_chat_threads :
        /\ auto_chat_threads[t] = "sleep"
        /\ auto_chat_threads' = [auto_chat_threads EXCEPT ![t] = "completion"]
    /\ st_messages' = Append(st_messages, Message("user", "Auto message"))
    /\ pc' = "auto_chat"
    /\ UNCHANGED <<auto_chat_enabled, raised>>
    /\ PageUnchanged

\* the completion of a thread returns and the thread appends the reply, or
\* it raises and the thread ends
AutoChatReply ==
    /\ \E t \in DOMAIN auto_chat_threads, replied \in BOOLEAN :
        /\ auto_chat_threads[t] = "completion"
        /\ IF replied
           THEN /\ Len(st_messages) < MaxPageMessages
                /\ st_messages' = Append(st_messages, Message("assistant", "message"))
                /\ auto_chat_threads' = [auto_chat_threads EXCEPT ![t] = "sleep"]
           ELSE /\ auto_chat_threads' = [auto_chat_threads EXCEPT ![t] = "ended"]
                /\ UNCHANGED st_messages
    /\ pc' = "auto_chat"
    /\ UNCHANGED <<auto_chat_enabled, raised>>
    /\ PageUnchanged

NextPage == Send \/ ToggleAutoChat \/ Rerun \/ AutoChatWake \/ AutoChatReply

SpecPage == InitPage /\ [][NextPage]_vars

(***************************************************************************)
(* Specification of the model resolver in an environment whose API keys    *)
(* are set and removed between the calls of configure_litellm.             *)
(***************************************************************************)
\* the providers whose key changes
ChangingProviders == {"openai", "groq", "deepseek", "mistral"}

InitCredentials ==
    /\ Fresh
    /\ task_details \in [task : Tasks, goals : Goals]
    /\ decisions = <<>>
    /\ persona_count = 1
    /\ llm = Raise
    /\ \E m \in {Unset, Set(<<"my-model">>)}, p \in {Unset, Set(<<"OpenAI">>)},
          k \in [ChangingProviders -> {Unset, Set(<<"sk">>)}] :
           environ = [LITELLM_MODEL |-> m, LITELLM_PROVIDER |-> p,
                      keys |-> [q \in ProviderNames |->
                                   IF q \in ChangingProviders THEN k[q] ELSE Unset]]

\* the user sets or removes one provider's API key
ChangeCredential ==
    /\ \E p \in ChangingProviders, c \in {Unset, Set(<<"sk">>)} :
           /\ environ.keys[p] # c
           /\ environ' = [environ EXCEPT !.keys[p] = c]
    /\ UNCHANGED <<pc, inputVars, stageLlmVars, domain, personas, enhanced, sessionVars,
                   litellm_api_key, model, resolutions, completions, chatVars,
                   auxVars, raised>>

NextCredentials == Configure \/ ChangeCredential

SpecCredentials == InitCredentials /\ [][NextCredentials]_vars

(***************************************************************************)
(* Specification of the five LLM-backed stages, each invoked once on a     *)
(* failed call, an empty, an unusable or a usable response.                *)
(***************************************************************************)
StageOutcomes ==
    {Raise, Text(<<>>), Text(<<"w">>), Text(<<"[", "oFull", "]">>),
     Text(<<"[", "kFull", "]">>), Text(<<"{", "kt", ",", "kg", "}">>),
     Text(<<"Creative">>), Text(<<"[", "w">>)}

InitCalls ==
    /\ Fresh
    /\ environ \in Environs
    /\ task_details \in [task : Tasks, goals : Goals]
    /\ decisions = <<>>
    /\ persona_count \in 1..MaxCount
    /\ llm \in StageOutcomes

NextCalls ==
    \/ Enhance
    \/ DetectDomain
    \/ SharedGenerate
    \/ ManagementGenerate
    \/ FetchKnowledgeSources
    \/ ResolveConflicts

SpecCalls == InitCalls /\ [][NextCalls]_vars

(***************************************************************************)
(* Specification of the chat operations: autochat and the two              *)
(* submit_prompt_to_llm functions, each called once in a session that may  *)
(* already hold a message.                                                 *)
(***************************************************************************)
\* a deepseek configuration
DeepseekEnviron ==
    [LITELLM_MODEL |-> Set(<<"deepseek-chat">>), LITELLM_PROVIDER |-> Set(<<"deepseek">>),
     keys |-> [p \in ProviderNames |-> IF p = "deepseek" THEN Set(<<"sk">>) ELSE Unset]]

\* outcomes of the completion call of submit_prompt_to_llm
SubmitOutcomes ==
    {Raise, RaiseWith(<<"Unexpected Error">>), RaiseWith(<<"API Error">>),
     Text(<<>>), Text(<<"w">>), Text(<<"sp", "w", "sp">>)}

\* autochat's first argument
ChatPersonas ==
    {JList(<<>>), generate_default_personas(1), generate_default_personas(2),
     json_loads(<<"[", "oFull", ",", "oTwo", "]">>).val}

ModelArguments == {Unset, Set(<<"gpt-4">>)}

InitChat ==
    /\ pc = "ready"
    /\ task_details \in [task : Tasks, goals : Goals]
    /\ persona_count = 1
    /\ decisions = <<>>
    /\ llm \in SubmitOutcomes
    /\ llm_domain = Raise
    /\ llm_knowledge = Raise
    /\ llm_conflicts = Raise
    /\ llm_agents = <<>>
    /\ domain = <<>>
    /\ personas \in ChatPersonas
    /\ enhanced = None
    /\ knowledge_sources = None
    /\ conflict_resolution = None
    /\ current_prompt = None
    /\ chat_history = <<>>
    /\ environ \in Environs \cup {DeepseekEnviron}
    /\ litellm_api_key = None
    /\ model = None
    /\ resolutions = 0
    /\ completions = <<>>
    /\ messages \in {<<>>, <<[role |-> "user", content |-> Lit("hello")]>>}
    /\ response = None
    /\ num_users \in 0..MaxUsers
    /\ Len(Iterate(personas)) > 1 => num_users <= 1
    /\ FormFresh
    /\ AgentFresh
    /\ WebFresh
    /\ ToneFresh
    /\ PageFresh
    /\ raised = "none"

\* the indices random.choice may return; for an empty list it raises
\* IndexError whatever the draw
Choices(ps) == IF Iterate(ps) = <<>> THEN {1} ELSE 1..Len(Iterate(ps))

Autochat ==
    /\ pc = "ready"
    /\ \E pick \in [1..(ExchangeRounds * num_users) -> Choices(personas)],
          fail \in 0..(ExchangeRounds * num_users) :
        LET cfg == pt_configure_litellm(environ, litellm_api_key)
            r == autochat(personas, num_users, cfg, pick, fail, messages)
        IN /\ messages' = r.messages
           /\ completions' = r.calls
           /\ raised' = r.exc
           /\ litellm_api_key' = cfg.api_key
           /\ model' = cfg.val
    /\ pc' = "autochat"
    /\ UNCHANGED auxVars
    /\ UNCHANGED <<inputVars, stageLlmVars, domain, personas, enhanced, sessionVars,
                   environ, resolutions, response, num_users>>

LISubmit ==
    /\ pc = "ready"
    /\ \E model_arg \in ModelArguments :
        LET cfg == IF model_arg.set
                   THEN [exc |-> "none", val |-> model, environ |-> environ,
                         api_key |-> litellm_api_key]
                   ELSE configure_litellm(environ, litellm_api_key)
            r == li_submit_prompt_to_llm(model_arg, cfg, llm)
        IN /\ response' = IF r.exc = "none" THEN r.val ELSE response
           /\ raised' = r.exc
           /\ completions' = IF r.exc = "none" THEN <<"submit_prompt_to_llm">> ELSE <<>>
           /\ environ' = cfg.environ
           /\ litellm_api_key' = cfg.api_key
           /\ model' = cfg.val
           /\ resolutions' = resolutions + (IF model_arg.set THEN 0 ELSE 1)
    /\ pc' = "llm_interaction.submit_prompt_to_llm"
    /\ UNCHANGED auxVars
    /\ UNCHANGED <<inputVars, stageLlmVars, domain, personas, enhanced, sessionVars,
                   messages, num_users>>

PTSubmit ==
    /\ pc = "ready"
    /\ LET r == pt_submit_prompt_to_llm(llm)
       IN /\ response' = r.val
          /\ raised' = r.exc
    /\ completions' = <<"submit_prompt_to_llm">>
    /\ pc' = "persona_testing.submit_prompt_to_llm"
    /\ UNCHANGED auxVars
    /\ UNCHANGED <<inputVars, stageLlmVars, domain, personas, enhanced, sessionVars,
                   configVars, messages, num_users>>

NextChat == Autochat \/ LISubmit \/ PTSubmit

SpecChat == InitChat /\ [][NextChat]_vars

(***************************************************************************)
(* Specification of the sidebar form: get_user_input run on any text of    *)
(* the reference-URL area.                                                 *)
(***************************************************************************)
\* a space or tab, a line break, two different URLs
UrlTokens == {"sp", "nl", "u1", "u2"}

InitForm ==
    /\ Fresh
    /\ environ = UsableEnviron
    /\ task_details \in [task : Tasks, goals : Goals]
    /\ decisions = <<>>
    /\ persona_count = 1
    /\ llm = Raise

TypeUrls ==
    /\ pc = "ready"
    /\ urls_input = <<>>
    /\ \E text \in SeqsUpTo(UrlTokens, MaxUrlLen) \ {<<>>} : urls_input' = text
    /\ UNCHANGED <<pc, inputVars, stageLlmVars, domain, personas, enhanced, sessionVars,
                   configVars, completions, chatVars, reference_urls, presses,
                   agentVars, webVars, toneVars, pageVars, raised>>

GetUserInput ==
    /\ pc = "ready"
    /\ reference_urls' = get_user_input(urls_input)
    /\ pc' = "get_user_input"
    /\ UNCHANGED <<inputVars, stageLlmVars, domain, personas, enhanced, sessionVars,
                   configVars, completions, chatVars, urls_input, presses,
                   agentVars, webVars, toneVars, pageVars, raised>>

NextForm == TypeUrls \/ GetUserInput

SpecForm == InitForm /\ [][NextForm]_vars

(***************************************************************************)
(* Specification of the prompt assemblers: each may be called again with   *)
(* the same arguments; main.generate_prompt is called as the Generate      *)
(* handler calls it.                                                       *)
(***************************************************************************)
PersonaInputs ==
    {JList(<<>>), generate_default_personas(1), generate_default_personas(2),
     pm_fallback_personas("Build a REST API", 2, <<"SOFTWARE">>),
     json_loads(<<"[", "oTwo", "]">>).val}

SourceInputs ==
    {json_loads(<<"[", "]">>).val, json_loads(<<"[", "kFull", "]">>).val,
     json_loads(<<"[", "kMore", ",", "kFull", "]">>).val,
     json_loads(<<"[", "kBare", "]">>).val}

DecisionInputs == {<<>>, <<"use REST">>, <<"use JWT", "use REST">>}

ConflictInputs == {Lit("No conflicts detected."), Str("llm text", <<"w">>, 0)}

\* the outcomes of a completion call whose content is parsed as a whole
ConfigOutcomes == {Raise, Text(<<"w">>), Text(<<"sp", "{", "kt", "}">>)}

InitAssembler ==
    /\ pc = "ready"
    /\ task_details \in [task : Tasks, goals : Goals]
    /\ persona_count = 1
    /\ decisions \in DecisionInputs
    /\ llm = Raise
    /\ llm_domain = Raise
    /\ llm_knowledge = Raise
    /\ llm_conflicts = Raise
    /\ llm_agents = <<>>
    /\ domain = <<>>
    /\ personas \in PersonaInputs
    /\ enhanced = None
    /\ knowledge_sources \in SourceInputs
    /\ conflict_resolution \in ConflictInputs
    /\ current_prompt = None
    /\ chat_history = <<>>
    /\ environ \in Environs
    /\ litellm_api_key = None
    /\ model = None
    /\ resolutions = 0
    /\ completions = <<>>
    /\ messages = <<>>
    /\ response = None
    /\ num_users = 0
    /\ FormFresh
    /\ AgentFresh
    /\ WebFresh
    /\ ToneFresh
    /\ PageFresh
    /\ raised = "none"

Assemble ==
    /\ pc \in {"ready", "main.generate_prompt"}
    /\ LET r == generate_prompt(task_details, personas, knowledge_sources,
                                conflict_resolution, decisions,
                                "Standard prompt generation without AutoGen.", FALSE)
       IN /\ current_prompt' = IF r.exc = "none" THEN r.val ELSE current_prompt
          /\ raised' = r.exc
    /\ pc' = "main.generate_prompt"
    /\ UNCHANGED auxVars
    /\ UNCHANGED <<inputVars, stageLlmVars, domain, personas, enhanced,
                   knowledge_sources, conflict_resolution, chat_history, configVars,
                   completions, chatVars>>

TestingAssemble ==
    /\ pc \in {"ready", "persona_testing.generate_prompt"}
    /\ LET r == pt_generate_prompt(task_details, personas, knowledge_sources,
                                   conflict_resolution, decisions)
       IN /\ current_prompt' = IF r.exc = "none" THEN r.val ELSE current_prompt
          /\ raised' = r.exc
    /\ pc' = "persona_testing.generate_prompt"
    /\ UNCHANGED auxVars
    /\ UNCHANGED <<inputVars, stageLlmVars, domain, personas, enhanced,
                   knowledge_sources, conflict_resolution, chat_history, configVars,
                   completions, chatVars>>

SharedAssemble ==
    /\ pc \in {"ready", "shared_functions.generate_prompt"}
    /\ resolutions < MaxResolutions
    /\ \E agents \in [1..Len(Iterate(personas)) -> ConfigOutcomes],
          workflow \in ConfigOutcomes :
        LET cfg == configure_litellm(environ, litellm_api_key)
            r == sf_generate_prompt(task_details, personas, knowledge_sources,
                                    conflict_resolution, decisions, cfg, agents, workflow)
        IN /\ llm_agents' = agents
           /\ llm' = workflow
           /\ current_prompt' = IF r.exc = "none" THEN r.val ELSE current_prompt
           /\ raised' = r.exc
           /\ environ' = cfg.environ
           /\ litellm_api_key' = cfg.api_key
           /\ model' = cfg.val
           /\ resolutions' = resolutions + 1
           /\ completions' = sf_generate_prompt_calls(personas, cfg)
    /\ pc' = "shared_functions.generate_prompt"
    /\ UNCHANGED auxVars
    /\ UNCHANGED <<task_details, persona_count, decisions, llm_domain, llm_knowledge,
                   llm_conflicts, domain, personas, enhanced, knowledge_sources,
                   conflict_resolution, chat_history, chatVars>>

NextAssembler == Assemble \/ TestingAssemble \/ SharedAssemble

SpecAssembler == InitAssembler /\ [][NextAssembler]_vars

(***************************************************************************)
(* Claims about the persona generators and the domain classifier           *)
(***************************************************************************)
Generated ==
    pc \in {"shared_functions.generate_personas",
            "persona_management.generate_personas"}

IsPersonaList(v) == v.t = "list" /\ \A i \in 1..Len(v.items) : v.items[i].t = "dict"

\* C1: for every count >= 1, every domain label and every LLM outcome the
\* persona generator returns a sequence of exactly `count` personas.
C1_ExactlyCountPersonas ==
    Generated => personas.t = "list" /\ Len(personas.items) = persona_count

\* C2: every persona returned by the persona generator, parsed or fallback,
\* contains all nine required fields.
C2_AllNineFields ==
    Generated =>
        /\ IsPersonaList(personas)
        /\ \A i \in 1..Len(personas.items) :
               required_fields \subseteq DOMAIN personas.items[i].d

\* the response carries no well-formed JSON array: it has no "[" followed
\* later by a "]"
NoArrayInText(s) ==
    ~ \E i, j \in 1..Len(s) : i < j /\ s[i] = "[" /\ s[j] = "]"

LLMFailed == llm.kind = "raise" \/ NoArrayInText(llm.text)

\* the names of the default persona set: the fallback table of the detected
\* domain (persona_management) or Persona_0.. (shared_functions)
IsDefaultSet(v, count) ==
    /\ IsPersonaList(v)
    /\ \/ v = generate_default_personas(count)
       \/ /\ Len(v.items) = Len(Prefix(fallback_table(domain), count))
          /\ \A i \in 1..Len(v.items) :
                 v.items[i].d["name"] = Lit(fallback_table(domain)[i][1])

\* C3: if the LLM backend raises, returns empty text or returns text with no
\* well-formed JSON array, the persona generator returns the default persona
\* set for the detected domain.
C3_FailureGivesDefaultSet ==
    (Generated /\ LLMFailed) => IsDefaultSet(personas, persona_count)

\* a well-formed array of persona objects, possibly wrapped in prose
JoinObjs(objs) ==
    [k \in 1..(2 * Len(objs) - 1) |-> IF k % 2 = 1 THEN objs[(k + 1) \div 2] ELSE ","]

ArrayText(objs) == <<"[">> \o JoinObjs(objs) \o <<"]">>

ProseWraps == {<<>>, <<"w">>}

\* what the claim expects for one object: the missing fields get the
\* placeholder, the present ones keep the LLM's value
ExpectedPersona(o) ==
    JDict([f \in required_fields |->
        IF f \in ObjFields(o) THEN LLMValue(o, f) ELSE Str("Default {field}", <<f>>, 0)])

\* C4: for a well-formed LLM array each parsed persona object is repaired in
\* place: exactly the absent required fields are set to "Default <field>" and
\* every present field keeps the value the LLM supplied.
C4_RepairInPlace ==
    (pc = "shared_functions.generate_personas" /\ llm.kind = "text") =>
        \A objs \in SeqsUpTo({"oTwo", "oFull"}, 2) \ {<<>>} :
            \A pre \in ProseWraps, post \in ProseWraps :
                llm.text = pre \o ArrayText(objs) \o post =>
                    personas = JList([i \in 1..Len(objs) |-> ExpectedPersona(objs[i])])

C4_Witness ==
    /\ pc = "shared_functions.generate_personas"
    /\ llm = Text(<<"[", "oTwo", ",", "oFull", "]">>)
    /\ Len(personas.items) = 2
    /\ personas.items[1].d["goals"] = Str("Default {field}", <<"goals">>, 0)
    /\ personas.items[1].d["name"] = LLMValue("oTwo", "name")
    /\ personas.items[2].d["goals"] = LLMValue("oFull", "goals")

\* number of named fallbacks the generator has for the detected domain
NamedFallbacks ==
    IF pc = "persona_management.generate_personas"
    THEN Len(fallback_table(domain)) ELSE 0

\* C5: when the requested count exceeds the number of named fallbacks of the
\* domain's lookup table, the fallback path still returns `count` personas and
\* the indices beyond the table get the generated name Persona_{i}.
C5_FallbackBeyondTable ==
    (Generated /\ llm.kind = "raise" /\ persona_count > NamedFallbacks) =>
        /\ Len(personas.items) = persona_count
        /\ \A i \in (NamedFallbacks + 1)..persona_count :
               personas.items[i].d["name"] = Str("Persona_{i}", <<>>, i - 1)

\* C6: the domain classifier never returns a value outside the fixed set of
\* 18 domain labels; a failed call or an output that is no label gives SOFTWARE.
C6_DomainAlwaysALabel ==
    pc \in {"detect_task_domain", "persona_management.generate_personas"} =>
        \E l \in DomainLabels : domain = <<l>>

(***************************************************************************)
(* Claims about the pipeline, the task enhancer and the conflict resolver  *)
(***************************************************************************)
\* a credential that is set, non-empty and not only whitespace
NonBlank(x) == x.set /\ \E i \in 1..Len(x.v) : x.v[i] # "sp"

\* the model configuration is usable: some provider has a credential
HasCredential == \E p \in ProviderNames : NonBlank(environ.keys[p])

\* C7: given a usable model configuration the pipeline run always ends with a
\* complete prompt bundle, for every combination of LLM outcomes at the
\* stages: no exception reaches the caller.
C7_PipelineAlwaysCompletes ==
    (pc = "Generate" /\ HasCredential) => raised = "none" /\ current_prompt # None

\* the text without its whitespace
Squeeze(s) == SelectSeq(s, LAMBDA t : t # "sp")

\* m is a list of members separated by commas
WellFormedMembers(m) ==
    \/ m = <<>>
    \/ /\ Len(m) % 2 = 1
       /\ \A i \in 1..Len(m) :
              IF i % 2 = 1 THEN m[i] \in MemberTokens ELSE m[i] = ","

\* what lies between the first "{" and the last "}" of the text
Braced(s) == SubSeq(Squeeze(s), find(Squeeze(s), "{") + 1, rfind(Squeeze(s), "}") - 1)

HasBraces(s) == find(Squeeze(s), "{") > 0 /\ rfind(Squeeze(s), "}") > find(Squeeze(s), "{")

\* the cases of the claim: the call raises, or the response is empty, holds no
\* JSON object, holds an unparsable one, or one that has neither of the keys
EnhancerFailure ==
    \/ llm.kind = "raise"
    \/ Squeeze(llm.text) = <<>>
    \/ ~HasBraces(llm.text)
    \/ ~WellFormedMembers(Braced(llm.text))
    \/ \A i \in 1..Len(Braced(llm.text)) : Braced(llm.text)[i] \notin {"kt", "kg"}

\* C8: the task enhancer returns the original {task, goals} pair unchanged
\* whenever the LLM call raises or the response is empty, contains no JSON
\* object, an unparsable object or an object without the keys enhanced_task
\* and enhanced_goals; it never raises, whatever the outcome of the LLM call
\* (the call is made when the model configuration is usable).
C8_EnhancerNoOpOnFailure ==
    (pc = "enhance_task_description" /\ HasCredential) =>
        /\ raised = "none"
        /\ EnhancerFailure =>
               enhanced = [task |-> task_details.task, goals |-> task_details.goals]

C8_Witness ==
    /\ pc = "enhance_task_description"
    /\ environ.LITELLM_PROVIDER = Set(<<"groq">>)
    /\ llm = Text(<<"w", "{", "ko", "}">>)
    /\ enhanced = [task |-> task_details.task, goals |-> task_details.goals]
    /\ raised = "none"

\* C9: when the conflict-resolution LLM call raises or returns an empty
\* response, the conflict resolver of the main page returns exactly the string
\* "No conflicts detected." and does not raise.
C9_ConflictFallback ==
    (pc = "resolve_conflicts" /\ HasCredential
       /\ (llm.kind = "raise" \/ \A i \in 1..Len(llm.text) : llm.text[i] = "sp")) =>
        /\ raised = "none"
        /\ conflict_resolution = Lit("No conflicts detected.")

C9_Witness ==
    /\ pc = "resolve_conflicts"
    /\ environ.LITELLM_MODEL = Set(<<"groq/mixtral-8x7b-32768">>)
    /\ llm = Raise
    /\ raised = "none"
    /\ conflict_resolution = Lit("No conflicts detected.")

NonEmpty(x) == x.set /\ x.v # <<>>

\* before the call a model and one of the six providers are configured, and
\* that provider's credential is valid
ExplicitPair(valid(_)) ==
    /\ environ.LITELLM_MODEL.set /\ environ.LITELLM_MODEL.v # <<>>
    /\ environ.LITELLM_PROVIDER.set
    /\ \E p \in ProviderNames :
           /\ lower(environ.LITELLM_PROVIDER.v) = <<p>>
           /\ valid(environ.keys[p])

\* the call returns the configured model and persists nothing new
ReturnsConfigured ==
    /\ raised' = "none"
    /\ model' = environ.LITELLM_MODEL.v
    /\ environ'.LITELLM_MODEL = environ.LITELLM_MODEL
    /\ environ'.LITELLM_PROVIDER = environ.LITELLM_PROVIDER

\* C11: when both a model and a provider are configured and that provider's
\* credential is non-empty and not only whitespace, the resolver returns the
\* configured model whatever credentials the other providers have, and
\* leaves the persisted model and provider unchanged.
C11_ExplicitPairWins ==
    [][(pc' = "configure_litellm" /\ ExplicitPair(NonBlank)) => ReturnsConfigured]_vars

\* C11 as stated: the same for every credential that is non-empty.
C11_NonEmptyCredential ==
    [][(pc' = "configure_litellm" /\ ExplicitPair(NonEmpty)) => ReturnsConfigured]_vars

C11_Witness ==
    /\ pc = "configure_litellm"
    /\ raised = "none"
    /\ model = <<"my-model">>
    /\ environ.LITELLM_MODEL = Set(<<"my-model">>)
    /\ environ.LITELLM_PROVIDER = Set(<<"mistral">>)
    /\ environ.keys["mistral"] = Set(<<"sk">>)
    /\ environ.keys["openai"] = Set(<<"sk">>)

\* the order in which the providers are tried
ScanOrder == <<"openai", "groq", "deepseek", "huggingface", "ollama", "mistral">>

\* the first provider of the order whose credential is valid
FirstWith(valid(_)) ==
    ScanOrder[CHOOSE i \in 1..Len(ScanOrder) :
                  /\ valid(environ.keys[ScanOrder[i]])
                  /\ \A j \in 1..(i - 1) : ~valid(environ.keys[ScanOrder[j]])]

\* without a usable explicit pair the call picks the first provider with a
\* valid credential, persists it, and returns the requested model if there
\* is one and the provider's canonical model otherwise
ScanPicksFirst(valid(_)) ==
    (/\ pc' = "configure_litellm"
     /\ ~ExplicitPair(valid)
     /\ \E p \in ProviderNames : valid(environ.keys[p])) =>
        /\ raised' = "none"
        /\ environ'.LITELLM_PROVIDER = Set(<<FirstWith(valid)>>)
        /\ model' = IF NonEmpty(environ.LITELLM_MODEL) THEN environ.LITELLM_MODEL.v
                    ELSE default_model(FirstWith(valid))

\* C12: when the explicit provider+model pair is not usable, the resolver
\* picks the first provider in the order openai, groq, deepseek, huggingface,
\* ollama, mistral whose credential is non-empty and not only whitespace,
\* persists that provider, and returns that provider's canonical model name
\* if no model was requested (otherwise the requested model).
C12_ScanInOrder == [][ScanPicksFirst(NonBlank)]_vars

\* C12 as stated: the same with every non-empty credential counted as one.
C12_ScanNonEmptyCredential == [][ScanPicksFirst(NonEmpty)]_vars

C12_Witness ==
    /\ pc = "configure_litellm"
    /\ raised = "none"
    /\ environ.keys["openai"] = Set(<<>>)
    /\ environ.keys["groq"] = Set(<<"sk">>)
    /\ environ.keys["deepseek"] = Set(<<"sk">>)
    /\ environ.LITELLM_PROVIDER = Set(<<"groq">>)
    /\ environ.LITELLM_MODEL = Set(<<"groq/mixtral-8x7b-32768">>)
    /\ model = <<"groq/mixtral-8x7b-32768">>

\* C13: model resolution is stable: with the credentials unchanged, after
\* one successful resolution every later resolution returns the same model
\* and leaves the persisted model and provider unchanged.
C13_StableResolution ==
    [][(/\ pc = "configure_litellm" /\ raised = "none"
        /\ pc' = "configure_litellm" /\ environ'.keys = environ.keys) =>
           /\ raised' = "none"
           /\ model' = model
           /\ environ'.LITELLM_MODEL = environ.LITELLM_MODEL
           /\ environ'.LITELLM_PROVIDER = environ.LITELLM_PROVIDER]_vars

C13_Witness ==
    /\ pc = "configure_litellm"
    /\ resolutions = 2
    /\ raised = "none"
    /\ environ.keys["openai"] = Set(<<"sp">>)
    /\ environ.keys["groq"] = Set(<<"sk">>)
    /\ environ.LITELLM_PROVIDER = Set(<<"groq">>)
    /\ model = <<"groq/mixtral-8x7b-32768">>

(***************************************************************************)
(* Claims about the prompt assemblers                                      *)
(***************************************************************************)
AssemblerOps ==
    {"main.generate_prompt", "persona_testing.generate_prompt",
     "shared_functions.generate_prompt"}

\* C14: the prompt assembler is pure and deterministic: a second call with
\* the same task, personas, knowledge sources, conflict strategy and prior
\* decisions gives the same result as the first, whatever the LLM responds.
C14_AssemblerDeterministic ==
    [][(pc \in AssemblerOps /\ pc' = pc) =>
           (raised' = raised /\ current_prompt' = current_prompt)]_vars

\* seq lists the items in order with sep between neighbours
Interleaved(seq, items, sep) ==
    /\ Len(seq) = IF items = <<>> THEN 0 ELSE 2 * Len(items) - 1
    /\ \A k \in 1..Len(seq) :
           IF k % 2 = 1 THEN seq[k] = items[(k + 1) \div 2] ELSE seq[k] = sep

SectionHeaders ==
    <<"### Task ###", "### Memory: Personas ###", "### Memory: Task Goals ###",
      "### Memory: Prior Decisions ###", "### Instructions ###">>

\* C15: the assembled instructions consist of exactly these sections in this
\* order: task header, persona memory block (one group per persona, in input
\* order), task-goals block, prior-decisions block (one bullet per entry, in
\* input order) and the closing paragraph, which names every persona and
\* every knowledge-source title in input order joined with ", ".
C15_InstructionSections ==
    (pc \in {"main.generate_prompt", "persona_testing.generate_prompt"}
       /\ raised = "none") =>
        LET ins == current_prompt.instructions
            ps == personas.items
            ks == knowledge_sources.items
        IN /\ [i \in 1..Len(ins) |-> ins[i].header] = SectionHeaders
           /\ ins[1].body = <<task_details.task>>
           /\ Len(ins[2].body) = (IF ps = <<>> THEN 0 ELSE 2 * Len(ps) - 1)
           /\ \A i \in 1..Len(ps) : ins[2].body[2 * i - 1].name = ps[i].d["name"]
           /\ ins[3].body = <<task_details.goals>>
           /\ Interleaved(ins[4].body,
                          [i \in 1..Len(decisions) |-> <<"- ", decisions[i]>>], "\n")
           /\ ins[5].body[1] = task_details.task
           /\ Interleaved(ins[5].body[2], [i \in 1..Len(ps) |-> ps[i].d["name"]], ", ")
           /\ Interleaved(ins[5].body[3], [i \in 1..Len(ks) |-> ks[i].d["title"]], ", ")

\* the LLM call of persona_management.generate_personas failed or its text did
\* not parse, so the except branch builds the personas
OnFallbackPath ==
    /\ pc = "persona_management.generate_personas"
    /\ \/ llm.kind = "raise"
       \/ ~json_loads(pm_extract(strip(llm.text))).ok

\* the table the spec assigns to the detected domain
TableOfDomain ==
    IF \E k \in FallbackKeys : domain = <<k>>
    THEN domain_fallbacks(domain[1])
    ELSE <<<<"John Smith", "Senior Software Developer">>,
           <<"Sarah Johnson", "Technical Lead">>>>

\* C16: on the fallback path of the domain-aware generator the i-th returned
\* persona (0-based) takes the i-th (name, title) pair of the domain's lookup
\* table and its background states 10+i years of experience; a domain with no
\* table of its own, unrecognized ones included, uses the SOFTWARE table, so
\* SOFTWARE with count 2 gives "John Smith" with 10 years and "Sarah Johnson"
\* with 11 years.
C16_FallbackFromTable ==
    OnFallbackPath =>
        /\ personas.t = "list"
        /\ Len(personas.items) <= Len(TableOfDomain)
        /\ \A k \in 1..Len(personas.items) :
               /\ personas.items[k].d["name"] = Lit(TableOfDomain[k][1])
               /\ personas.items[k].d["background"] =
                      Str("{title} with {10+i} years of experience",
                          <<TableOfDomain[k][2]>>, 10 + (k - 1))
        /\ (domain = <<"SOFTWARE">> /\ persona_count = 2) =>
               /\ Len(personas.items) = 2
               /\ personas.items[1].d["name"] = Lit("John Smith")
               /\ personas.items[1].d["background"].n = 10
               /\ personas.items[2].d["name"] = Lit("Sarah Johnson")
               /\ personas.items[2].d["background"].n = 11

\* an unrecognized domain, two personas requested, the LLM call failed
C16_Witness ==
    /\ OnFallbackPath
    /\ llm.kind = "raise"
    /\ domain = <<"BANANA">>
    /\ persona_count = 2
    /\ Len(personas.items) = 2
    /\ personas.items[2].d["name"] = Lit("Sarah Johnson")
    /\ personas.items[2].d["background"].n = 11

\* the names under which the five stages log their completion call
StageCalls ==
    {"enhance_task_description", "detect_task_domain",
     "shared_functions.generate_personas", "persona_management.generate_personas",
     "fetch_knowledge_sources", "resolve_conflicts"}

\* number of completion calls the last operation issued from call site c
CallsFrom(c) == Cardinality({i \in 1..Len(completions) : completions[i] = c})

\* the last operation returned the fallback of its stage
ReturnedFallback ==
    CASE pc = "enhance_task_description" ->
             enhanced = [task |-> task_details.task, goals |-> task_details.goals]
      [] pc = "detect_task_domain" -> domain = <<"SOFTWARE">>
      [] pc = "shared_functions.generate_personas" ->
             /\ Len(personas.items) = persona_count
             /\ \A i \in 1..persona_count :
                    personas.items[i].d["name"] = Str("Persona_{i}", <<>>, i - 1)
      [] pc = "persona_management.generate_personas" ->
             /\ Len(personas.items) >= 1
             /\ personas.items[1].d["communication_style"] =
                    Lit("Professional and collaborative")
      [] pc = "fetch_knowledge_sources" -> knowledge_sources = JList(<<>>)
      [] pc = "resolve_conflicts" -> conflict_resolution = Lit("No conflicts detected.")

\* C17: no stage retries the LLM: each invocation of the enhancer, the domain
\* classifier, the persona generator, the knowledge-source fetcher and the
\* conflict resolver issues at most one completion call, and after a failed
\* call the stage has issued exactly that one call and returns its fallback.
C17_NoRetry ==
    pc \in StageCalls =>
        /\ \A c \in StageCalls : CallsFrom(c) <= 1
        /\ \A i \in 1..Len(completions) : completions[i] \in StageCalls
        /\ (llm.kind = "raise" /\ raised = "none") =>
               (CallsFrom(pc) = 1 /\ ReturnedFallback)

\* the enhancer's call failed: one call was issued and the input came back
C17_Witness ==
    /\ pc = "enhance_task_description"
    /\ llm.kind = "raise"
    /\ raised = "none"
    /\ completions = <<"enhance_task_description">>
    /\ enhanced = [task |-> task_details.task, goals |-> task_details.goals]

\* the array the fetcher's regular expression finds in the response and
\* json.loads accepts, if there is one
WellFormedArray ==
    /\ llm.kind = "text"
    /\ search_array(strip(llm.text)).found
    /\ json_loads(search_array(strip(llm.text)).group).ok

\* C18: fetch_knowledge_sources always returns a list and never raises for
\* any LLM outcome: the parsed array when the response contains a well-formed
\* JSON array, the empty list when the call raises, the response is empty, no
\* [...] substring is found or the substring fails to parse.
C18_FetchAlwaysList ==
    (pc \in {"fetch_knowledge_sources", "llm_interaction.fetch_knowledge_sources"}
       /\ HasCredential) =>
        /\ raised = "none"
        /\ knowledge_sources.t = "list"
        /\ knowledge_sources =
               (IF WellFormedArray
                THEN json_loads(search_array(strip(llm.text)).group).val
                ELSE JList(<<>>))

\* the value is a Python str
IsString(v) == "kind" \in DOMAIN v

\* the last operation was a submit_prompt_to_llm whose completion call failed
SubmitFailed ==
    /\ pc \in {"llm_interaction.submit_prompt_to_llm",
               "persona_testing.submit_prompt_to_llm"}
    /\ completions = <<"submit_prompt_to_llm">>
    /\ llm.kind = "raise"

\* C19: submit_prompt_to_llm never raises when the completion call fails: for
\* any exception it returns a message string that describes the error and
\* contains the exception's text.
C19_SubmitReturnsMessage ==
    SubmitFailed =>
        /\ raised = "none"
        /\ IsString(response)
        /\ \E i \in 1..Len(response.a) : response.a[i] = llm.text

\* C20: autochat(personas, n) appends exactly n messages to the session
\* message list, each with role "system".
C20_AutochatAppendsN ==
    [][(pc' = "autochat" /\ raised' = "none") =>
          /\ Len(messages') = Len(messages) + num_users
          /\ SubSeq(messages', 1, Len(messages)) = messages
          /\ \A k \in (Len(messages) + 1)..Len(messages') :
                 messages'[k].role = "system"]_vars

\* the lines of the URL input: line k lies between the (k-1)-th and the k-th
\* line break
LineBreaks == {i \in 1..Len(urls_input) : urls_input[i] = "nl"}
LineCount == Cardinality(LineBreaks) + 1
BreakBefore(k) ==
    IF k = 1 THEN 0
    ELSE CHOOSE i \in LineBreaks : Cardinality({j \in LineBreaks : j <= i}) = k - 1
BreakAfter(k) ==
    IF k = LineCount THEN Len(urls_input) + 1
    ELSE CHOOSE i \in LineBreaks : Cardinality({j \in LineBreaks : j <= i}) = k
\* positions of line k that hold no whitespace
Inked(k) == {i \in (BreakBefore(k) + 1)..(BreakAfter(k) - 1) : urls_input[i] # "sp"}
NonBlankLines == {k \in 1..LineCount : Inked(k) # {}}
\* line k from its first to its last non-blank position
Trimmed(k) ==
    SubSeq(urls_input, CHOOSE i \in Inked(k) : \A j \in Inked(k) : i <= j,
                       CHOOSE i \in Inked(k) : \A j \in Inked(k) : i >= j)
\* the i-th non-blank line
NthNonBlank(i) ==
    CHOOSE k \in NonBlankLines : Cardinality({j \in NonBlankLines : j <= k}) = i

\* C21: the reference-URL list of a collected TaskSpec is the sequence of
\* non-blank lines of the URL input, each stripped of surrounding whitespace,
\* in their original order and with duplicates kept.
C21_ReferenceUrls ==
    pc = "get_user_input" =>
        /\ Len(reference_urls) = Cardinality(NonBlankLines)
        /\ \A i \in 1..Len(reference_urls) : reference_urls[i] = Trimmed(NthNonBlank(i))

\* a padded URL, a blank line and the same URL again
C21_Witness ==
    /\ pc = "get_user_input"
    /\ urls_input = <<"sp", "u1", "nl", "nl", "u1">>
    /\ reference_urls = <<<<"u1">>, <<"u1">>>>

\* the first balanced {...} of the text: from the first "{" to the "}" that
\* closes it (<<>> when there is none)
FirstBalanced(s) ==
    LET a == find(s, "{")
        depth(i) == Cardinality({j \in a..i : s[j] = "{"})
                      - Cardinality({j \in a..i : s[j] = "}"})
        closes == {i \in a..Len(s) : a > 0 /\ depth(i) = 0}
    IN IF a = 0 \/ closes = {} THEN <<>>
       ELSE SubSeq(s, a, CHOOSE i \in closes : \A j \in closes : i <= j)

\* the response wraps in prose a well-formed object with both keys
WrapsEnhancedObject ==
    /\ llm.kind = "text"
    /\ json_loads(FirstBalanced(llm.text)).ok
    /\ {"enhanced_task", "enhanced_goals"} \subseteq
           DOMAIN json_loads(FirstBalanced(llm.text)).val.d

\* C22: when the LLM response wraps a well-formed JSON object carrying
\* enhanced_task and enhanced_goals in prose, the task enhancer returns the
\* values of the first balanced {...} object of the text, also when further
\* brace characters or a second object appear later in the response.
C22_FirstBalancedObject ==
    (pc = "enhance_task_description" /\ HasCredential /\ WrapsEnhancedObject) =>
        /\ raised = "none"
        /\ enhanced = [task |-> json_loads(FirstBalanced(llm.text)).val.d["enhanced_task"],
                       goals |-> json_loads(FirstBalanced(llm.text)).val.d["enhanced_goals"]]

\* C23: across any sequence of model resolutions and credential changes, a
\* model name that the resolver chose as one provider's canonical default is
\* never returned or persisted together with a different provider.
C23_DefaultStaysWithProvider ==
    \A p \in ProviderNames :
        /\ (pc = "configure_litellm" /\ raised = "none" /\ model = default_model(p)) =>
               lower(environ.LITELLM_PROVIDER.v) = <<p>>
        /\ (environ.LITELLM_MODEL.set /\ environ.LITELLM_MODEL.v = default_model(p)) =>
               lower(environ.LITELLM_PROVIDER.v) = <<p>>

\* the names of the personas stored in the session, <<>> when what is stored
\* is no list of named personas
StoredNames ==
    IF personas = None THEN <<>>
    ELSE IF personas.t # "list" THEN <<>>
    ELSE IF \E i \in 1..Len(personas.items) :
               SubscriptError(personas.items[i], {"name"}) # "none"
    THEN <<>>
    ELSE [i \in 1..Len(personas.items) |-> personas.items[i].d["name"]]

\* C24: in the main page's session state, after any sequence of Generate,
\* Generate-with-AutoGen and Clear Chat actions (including actions that end in
\* an error part-way), whenever current_prompt is set its persona name list
\* equals the names of the personas stored in the session.
C24_PromptNamesMatchSession ==
    current_prompt # None =>
        /\ personas # None
        /\ current_prompt.personas = StoredNames

\* C25: every process_message call whose processing keeps failing is retried
\* up to MAX_RETRIES (3) times before the error is re-raised, regardless of
\* how many failures occurred in earlier calls on the same agent: the call
\* that re-raises has run the processing once and retried it three times.
C25_RetriesPerCall ==
    (pc = "process_message" /\ raised = "Exception") => attempts = 1 + MAX_RETRIES

\* C26: each process_message call adds exactly one entry to the agent's
\* conversation_history, whether the call succeeds at once, succeeds after
\* retries, or finally re-raises.
C26_OneEntryPerCall ==
    [][pc' = "process_message" =>
          Len(conversation_history') = Len(conversation_history) + 1]_vars

\* the key set of url_cache
CachedUrls(c) == {u \in Urls : c[u].set}

\* the last call of the agent made a request and the request failed
FetchFailed == web_requests = 1 /\ web_outcome.kind = "raise"

\* C27: after any sequence of fetch_url_content calls, visited_urls equals the
\* key set of url_cache, the cache holds only content of successful fetches (a
\* failed fetch is never cached), and a cache-enabled call for a cached URL
\* returns the cached content without a network request.
C27_CacheAndVisited ==
    [][pc' \in {"fetch_url_content", "analyze_url_content"} =>
          /\ visited_urls' = CachedUrls(url_cache')
          /\ \A u \in Urls :
                 url_cache'[u] # url_cache[u] =>
                     /\ u = web_url'
                     /\ web_requests' = 1
                     /\ web_outcome'.kind = "text"
                     /\ url_cache'[u] = Set(fetched')
          /\ (web_cache' /\ url_cache[web_url'].set) =>
                 /\ fetched' = url_cache[web_url'].v
                 /\ web_requests' = 0
                 /\ url_cache' = url_cache]_vars

\* a page is fetched and cached, a failing fetch of the other URL leaves the
\* cache alone, and the first URL is then served from the cache
C27_Witness ==
    /\ pc = "fetch_url_content"
    /\ web_calls = 3
    /\ CachedUrls(url_cache) = {"http://a"}
    /\ visited_urls = {"http://a"}
    /\ web_url = "http://a"
    /\ web_cache
    /\ web_requests = 0
    /\ web_outcome.kind = "raise"
    /\ fetched = <<"w", "nl", "w">>

\* C28: analyze_url_content reports metadata.success as false whenever the
\* underlying fetch of the URL failed, and as true only when content was
\* fetched.
C28_SuccessReflectsFetch ==
    pc = "analyze_url_content" =>
        (FetchFailed => ~analysis.success)

\* C29: for every non-empty persona list, improve_emotional_tone never lowers
\* the emotional tone score, is idempotent, and leaves a score of at least the
\* number of personas, so the prediction after improvement is never
\* "High risk of failure".
C29_ImprovementRaisesScore ==
    pc = "improve_emotional_tone" =>
        /\ improved_score >= score
        /\ improve_emotional_tone(db_personas) = db_personas
        /\ improved_score >= Len(db_personas)
        /\ improved_prediction # "High risk of failure"

\* a row predicted to fail (an angry persona and one without a tone) improved
C29_Witness ==
    /\ pc = "improve_emotional_tone"
    /\ improvements = 1
    /\ score = -7
    /\ prediction = "High risk of failure"
    /\ db_personas = <<WithTone("motivated"), WithTone("motivated")>>
    /\ improved_score = 8
    /\ improved_prediction = "Low chance of success"

\* C30: with Auto Chat enabled on the chat page, at most one auto-chat worker
\* thread appends to the session message list at any time, across any number
\* of page reruns and Send actions.
C30_OneAutoChatWorker ==
    auto_chat_enabled => Cardinality(Running(auto_chat_threads)) <= 1

====
